---- MODULE Spec2Model ----
(***************************************************************************)
(* Model of the Dove personalised-clip pipeline (personalized_video.py):   *)
(* the interval detector, the name-audio cache key, the cache-build phase *)
(* of main with its batch-synthesis splitter, the loudness and tempo      *)
(* fitting helpers, one build of build_personalized_video under each tier *)
(* policy, the recipients loop of main, and the backend (backend/app.py,   *)
(* backend/jobs.py): one run of run_pipeline, the server's concurrent      *)
(* create_job requests with the job store and the voice cache, and one     *)
(* file of the name-audio cache shared by concurrent jobs.                 *)
(*                                                                         *)
(* Times are integers in milliseconds, noise floors integers in dB,        *)
(* loudness in thousandths of a dB, tempo factors in millionths.           *)
(***************************************************************************)
EXTENDS Integers, Sequences, FiniteSets, TLC

\* ------------------------------------------------------------------------
\* Bounds of the model
\* ------------------------------------------------------------------------
\* largest number of silencedetect events in one report of the detector model
MaxEvents == 5
\* largest number of recipient rows of one job
MaxRows == 3
\* largest number of silencedetect events in one report on the batch audio
MaxBatchEvents == 4
\* largest number of silencedetect events in one report on the base media of
\* a build
MaxTierEvents == 4
\* largest number of recipient rows in the loop over the recipients
MaxRecipients == 3
\* largest number of recipient rows of a job run by run_pipeline
MaxJobRows == 2
\* largest number of create_job requests the server receives
MaxRequests == 2
\* the last instant of the server's clock, in ticks
MaxTicks == 2
\* largest number of jobs that want the same cache file at the same time
MaxSharers == 2

\* the clock of the server counts ticks of half a second
TicksPerSecond == 2

\* ------------------------------------------------------------------------
\* Generic helpers
\* ------------------------------------------------------------------------
\* Python's None; an optional number is None or the one-element tuple <<x>>
None == <<>>

Max(a, b) == IF a >= b THEN a ELSE b

Abs(a) == IF a < 0 THEN 0 - a ELSE a

\* the indices of s, as a set
Indices(s) == 1..Len(s)

\* the ascending sequence of the elements of a finite set of integers
RECURSIVE SortedSeq(_)
SortedSeq(S) ==
    IF S = {} THEN <<>>
    ELSE LET m == CHOOSE x \in S : \A y \in S : x <= y
         IN  <<m>> \o SortedSeq(S \ {m})

\* ------------------------------------------------------------------------
\* The media engine's silencedetect report
\* ------------------------------------------------------------------------
\* The report is the list of silence_start / silence_end lines the engine
\* prints, in time order: starts and ends alternate, a silence that runs to
\* the end of the file may be reported without its end, and the first
\* silence_start may be slightly negative.
TimePoints == {-10, 0, 30, 60, 1200, 1210, 1230, 3000, 3050, 4000}

Event(typ, ts) == [typ |-> typ, ts |-> ts]

ReportOf(S) ==
    LET pts == SortedSeq(S)
    IN  [i \in 1..Len(pts) |->
            Event(IF i % 2 = 1 THEN "silence_start" ELSE "silence_end", pts[i])]

Reports == { ReportOf(S) : S \in { T \in SUBSET TimePoints : Cardinality(T) <= MaxEvents } }

\* the closed silence intervals of a report: a start and the end that follows it
ReportedSilences(rep) ==
    { <<rep[i].ts, rep[i + 1].ts>> : i \in { j \in 1..(Len(rep) - 1) : rep[j].typ = "silence_start" } }

\* ------------------------------------------------------------------------
\* detect_first_speech_segment
\* ------------------------------------------------------------------------
\* a silence_start within this distance of 0 counts as leading silence
LeadingSilenceMs == 50
\* a silence_start must lie more than this after the speech start to end it
SpeechEndGuardMs == 20

\* events.sort(key=lambda e: e[1]): stable insertion sort by timestamp
RECURSIVE InsertEvent(_, _)
InsertEvent(sorted, e) ==
    IF sorted = <<>> THEN <<e>>
    ELSE IF sorted[Len(sorted)].ts <= e.ts THEN Append(sorted, e)
    ELSE Append(InsertEvent(SubSeq(sorted, 1, Len(sorted) - 1), e), sorted[Len(sorted)])

RECURSIVE SortEvents(_)
SortEvents(events) ==
    IF events = <<>> THEN <<>>
    ELSE InsertEvent(SortEvents(SubSeq(events, 1, Len(events) - 1)), events[Len(events)])

\* <<timestamp>> of the first of the events at the given indices, or None
FirstTs(events, hits) ==
    IF hits = {} THEN None
    ELSE <<events[CHOOSE i \in hits : \A j \in hits : i <= j].ts>>

\* the speech start taken from the first silence_end whatever the first event
SpeechStartOf_AlwaysFirstEnd(events) ==
    LET firstEnd == FirstTs(events, { i \in Indices(events) : events[i].typ = "silence_end" })
    IN  IF firstEnd = None THEN 0 ELSE firstEnd[1]

\* the speech start taken from the start of the leading silence
SpeechStartOf_SilenceStart(events) ==
    IF events[1].typ = "silence_start" /\ Abs(events[1].ts - 0) < LeadingSilenceMs
    THEN events[1].ts
    ELSE 0

SpeechStartOf(events) ==
    IF events[1].typ = "silence_start" /\ Abs(events[1].ts - 0) < LeadingSilenceMs
    THEN LET firstEnd == FirstTs(events, { i \in Indices(events) : events[i].typ = "silence_end" })
         IN  IF firstEnd = None THEN 0 ELSE firstEnd[1]
    ELSE 0

\* the speech end without the guard after the speech start
SpeechEndOf_NoGuard(events, speech_start) ==
    FirstTs(events, { i \in Indices(events) :
                         events[i].typ = "silence_start" /\ events[i].ts > speech_start })

SpeechEndOf(events, speech_start) ==
    FirstTs(events, { i \in Indices(events) :
                         events[i].typ = "silence_start"
                         /\ events[i].ts > speech_start + SpeechEndGuardMs })

detect_first_speech_segment(report) ==
    IF report = <<>> THEN None
    ELSE LET events == SortEvents(report)
             speech_start == SpeechStartOf(events)
             speech_end == SpeechEndOf(events, speech_start)
         IN  IF speech_end = None THEN None
             ELSE IF speech_end[1] <= speech_start THEN None
             ELSE <<speech_start, speech_end[1]>>

\* ------------------------------------------------------------------------
\* detect_nonsilent_segments
\* ------------------------------------------------------------------------
MinSegmentMs == 80

\* the parse loop: pairs every silence_end with the silence_start before it
RECURSIVE ParseSilences(_, _, _)
ParseSilences(report, current_start, silences) ==
    IF report = <<>> THEN silences
    ELSE LET e == Head(report)
         IN  IF e.typ = "silence_start"
             THEN ParseSilences(Tail(report), <<e.ts>>, silences)
             ELSE IF current_start # None
             THEN ParseSilences(Tail(report), None,
                                Append(silences, <<Max(0, current_start[1]), Max(0, e.ts)>>))
             ELSE ParseSilences(Tail(report), current_start, silences)

\* the complement loop without the minimum segment length
RECURSIVE ComplementLoop_NoMinSegment(_, _, _, _)
ComplementLoop_NoMinSegment(silences, cursor, segments, min_segment) ==
    IF silences = <<>> THEN <<cursor, segments>>
    ELSE LET start == Head(silences)[1]
             end == Head(silences)[2]
             segs == IF start > cursor THEN Append(segments, <<cursor, start>>) ELSE segments
         IN  ComplementLoop_NoMinSegment(Tail(silences), Max(cursor, end), segs, min_segment)

\* the complement loop over the silences, with its cursor
RECURSIVE ComplementLoop(_, _, _, _)
ComplementLoop(silences, cursor, segments, min_segment) ==
    IF silences = <<>> THEN <<cursor, segments>>
    ELSE LET start == Head(silences)[1]
             end == Head(silences)[2]
             segs == IF start > cursor /\ (start - cursor) >= min_segment
                     THEN Append(segments, <<cursor, start>>)
                     ELSE segments
         IN  ComplementLoop(Tail(silences), Max(cursor, end), segs, min_segment)

detect_nonsilent_segments(report, total, min_segment) ==
    LET silences == ParseSilences(report, None, <<>>)
        looped == ComplementLoop(silences, 0, <<>>, min_segment)
        cursor == looped[1]
        segments == looped[2]
    IN  IF total > cursor /\ (total - cursor) >= min_segment
        THEN Append(segments, <<cursor, total>>)
        ELSE segments

\* ------------------------------------------------------------------------
\* name_audio_cache_key and name_cache_filename
\* ------------------------------------------------------------------------
\* A string is a sequence of tokens; "|" is the separator character of the
\* key.  NoStr is None where a string is expected.
NoStr == <<"<None>">>

\* x or ""
OrEmpty(x) == IF x = NoStr \/ x = <<>> THEN <<>> ELSE x

\* "|".join(parts)
RECURSIVE JoinBar(_)
JoinBar(parts) ==
    IF parts = <<>> THEN <<>>
    ELSE IF Len(parts) = 1 THEN parts[1]
    ELSE parts[1] \o <<"|">> \o JoinBar(Tail(parts))

\* file_hash: the sha256 hex digest of the file's bytes, taken as free of
\* collisions
file_hash(content) == <<"sha256">> \o content

\* f"{float(speed):.3f}": a speed is an integer number of 1/10000; the text
\* is the speed rounded to 1/1000 (the speeds of the model avoid ties)
FormatSpeed3(speed) == <<(speed + 5) \div 10>>

\* a voice sample argument: whether a path is given, whether the file exists,
\* and the bytes of the file
VoiceSample(given, exists, content) == [given |-> given, exists |-> exists, content |-> content]

VoiceHashOf(voice_sample) ==
    IF voice_sample.given /\ voice_sample.exists THEN file_hash(voice_sample.content) ELSE <<>>

\* name_audio_cache_key with the language left out of the key
name_audio_cache_key_NoLang(cfg) ==
    JoinBar(<< OrEmpty(cfg.tts_provider),
               OrEmpty(cfg.text_template),
               OrEmpty(cfg.tts_cmd),
               OrEmpty(cfg.elevenlabs_voice_id),
               OrEmpty(cfg.elevenlabs_model_id),
               IF cfg.elevenlabs_speed = None THEN <<>> ELSE FormatSpeed3(cfg.elevenlabs_speed[1]),
               VoiceHashOf(cfg.voice_sample) >>)

name_audio_cache_key(cfg) ==
    JoinBar(<< OrEmpty(cfg.tts_provider),
               OrEmpty(cfg.lang),
               OrEmpty(cfg.text_template),
               OrEmpty(cfg.tts_cmd),
               OrEmpty(cfg.elevenlabs_voice_id),
               OrEmpty(cfg.elevenlabs_model_id),
               IF cfg.elevenlabs_speed = None THEN <<>> ELSE FormatSpeed3(cfg.elevenlabs_speed[1]),
               VoiceHashOf(cfg.voice_sample) >>)

\* the synthesis configurations main can pass: the four text options are
\* strings, the two ids are None when empty, the speed is None or a number
ConfigDomain ==
    [ tts_provider |-> {<<"gtts">>, <<"elevenlabs">>, <<"command">>},
      lang |-> {<<>>, <<"hi">>},
      text_template |-> {<<>>, <<"{name}">>, <<"{name}", "|">>},
      tts_cmd |-> {<<>>, <<"|">>, <<"say">>},
      elevenlabs_voice_id |-> {NoStr, <<"v1">>, <<"v2">>},
      elevenlabs_model_id |-> {NoStr, <<"m1">>},
      elevenlabs_speed |-> {None, <<10000>>, <<10004>>, <<10006>>},
      voice_sample |-> { VoiceSample(FALSE, FALSE, <<>>), VoiceSample(TRUE, FALSE, <<>>),
                         VoiceSample(TRUE, TRUE, <<"x">>), VoiceSample(TRUE, TRUE, <<"y">>) } ]

Configs ==
    [ tts_provider : ConfigDomain.tts_provider,
      lang : ConfigDomain.lang,
      text_template : ConfigDomain.text_template,
      tts_cmd : ConfigDomain.tts_cmd,
      elevenlabs_voice_id : ConfigDomain.elevenlabs_voice_id,
      elevenlabs_model_id : ConfigDomain.elevenlabs_model_id,
      elevenlabs_speed : ConfigDomain.elevenlabs_speed,
      voice_sample : ConfigDomain.voice_sample ]

ConfigFields == DOMAIN ConfigDomain

\* safe_slug: every run of characters outside [A-Za-z0-9_-] becomes one "_",
\* "_" is stripped from both ends, and an empty slug becomes "person"
SlugChars == {"a", "b", "c", "-", "_"}

RECURSIVE StripChars(_, _)
StripChars(str, chars) ==
    IF str = <<>> THEN <<>>
    ELSE IF str[1] \in chars THEN StripChars(Tail(str), chars)
    ELSE IF str[Len(str)] \in chars THEN StripChars(SubSeq(str, 1, Len(str) - 1), chars)
    ELSE str

\* str.strip()
Strip(str) == StripChars(str, {" "})

RECURSIVE ReplaceRuns(_, _)
ReplaceRuns(str, inRun) ==
    IF str = <<>> THEN <<>>
    ELSE IF str[1] \in SlugChars THEN <<str[1]>> \o ReplaceRuns(Tail(str), FALSE)
    ELSE IF inRun THEN ReplaceRuns(Tail(str), TRUE)
    ELSE <<"_">> \o ReplaceRuns(Tail(str), TRUE)

safe_slug(name) ==
    LET slug == StripChars(ReplaceRuns(Strip(name), FALSE), {"_"})
    IN  IF slug = <<>> THEN <<"person">> ELSE slug

\* name_cache_filename: the slug and the first 12 hex digits of the sha1 of
\* "<stripped name>|<cache key>", the digest taken as free of collisions
name_cache_filename(name, cache_key) ==
    [slug |-> safe_slug(name), digest |-> <<"sha1">> \o Strip(name) \o <<"|">> \o cache_key]

\* ------------------------------------------------------------------------
\* main: the cache-build phase, ensure_name_clips_batch_tts and
\* ensure_name_clip_wav
\* ------------------------------------------------------------------------
\* the name cells of the recipients file, as read (not yet stripped)
RawNames == { <<"a">>, <<"b">>, <<"c">>, <<"a", " ">>, <<" ">> }

RowLists == UNION { [1..n -> RawNames] : n \in 0..MaxRows }

\* the synthesis configuration, the same for every job
JobConfig ==
    [ tts_provider |-> <<"elevenlabs">>, lang |-> <<"hi">>, text_template |-> <<"{name}">>,
      tts_cmd |-> <<>>, elevenlabs_voice_id |-> <<"v1">>, elevenlabs_model_id |-> NoStr,
      elevenlabs_speed |-> <<10000>>, voice_sample |-> VoiceSample(TRUE, TRUE, <<"x">>) ]

CacheKey == name_audio_cache_key(JobConfig)

CacheFile(name) == name_cache_filename(name, CacheKey)

\* the unique_names loop of main: strip, drop the empty names and the names
\* already seen, keep the order
RECURSIVE UniqueNamesLoop(_, _, _)
UniqueNamesLoop(cells, seen, unique_names) ==
    IF cells = <<>> THEN unique_names
    ELSE LET n == Strip(Head(cells))
         IN  IF n = <<>> \/ n \in seen
             THEN UniqueNamesLoop(Tail(cells), seen, unique_names)
             ELSE UniqueNamesLoop(Tail(cells), seen \cup {n}, Append(unique_names, n))

\* the unique_names loop without its "seen" test
RECURSIVE UniqueNames_NoSeen(_)
UniqueNames_NoSeen(rows) ==
    IF rows = <<>> THEN <<>>
    ELSE IF Strip(Head(rows)) = <<>> THEN UniqueNames_NoSeen(Tail(rows))
    ELSE <<Strip(Head(rows))>> \o UniqueNames_NoSeen(Tail(rows))

UniqueNames(rows) == UniqueNamesLoop(rows, {}, <<>>)

BatchProviders == {<<"elevenlabs">>, <<"command">>, <<"gtts">>}

batch_enabled(batch_name_tts, tts_provider) == batch_name_tts /\ tts_provider \in BatchProviders

\* the split ladder: floors of the second and third minimum silence duration
SecondTrialMinDurMs == 80
ThirdTrialMinDurMs == 50
NumTrials == 3

\* the split ladder without the floors of the durations
split_trials_NoFloor(db, dur) ==
    << <<db, dur>>,
       <<db + 5, (dur * 66) \div 100>>,
       <<db + 10, (dur * 50) \div 100>> >>

split_trials(db, dur) ==
    << <<db, dur>>,
       <<db + 5, Max(SecondTrialMinDurMs, (dur * 66) \div 100)>>,
       <<db + 10, Max(ThirdTrialMinDurMs, (dur * 50) \div 100)>> >>

\* the ladder accepting a detection that is one segment short
SplitDecision_OneShort(nsegs, nmissing, trial) ==
    IF nsegs >= nmissing - 1 /\ nsegs >= 1 /\ trial = NumTrials THEN "accept"
    ELSE IF nsegs >= nmissing THEN "accept"
    ELSE IF trial < NumTrials THEN "retry"
    ELSE "raise"

\* what the ladder does after a detection: stop the loop and extract, try the
\* next pair, or raise after the last pair
SplitDecision(nsegs, nmissing, trial) ==
    IF nsegs >= nmissing THEN "accept"
    ELSE IF trial < NumTrials THEN "retry"
    ELSE "raise"

\* the clip ffmpeg extracts for missing[idx]: -ss start -t max(0.05, end - start)
MinClipMs == 50

\* a clip: where its audio comes from ("batch": cut out of the batch audio,
\* "single": a synthesis of its own), and the cut
Clip(src, start, dur) == [src |-> src, start |-> start, dur |-> dur]

\* the extraction taking the segments from the last one backwards
ExtractedClip_FromEnd(segments, idx) ==
    LET seg == segments[Len(segments) - idx + 1]
    IN  Clip("batch", seg[1], Max(MinClipMs, seg[2] - seg[1]))

ExtractedClip(segments, idx) ==
    LET start == segments[idx][1]
        end == segments[idx][2]
    IN  Clip("batch", start, Max(MinClipMs, end - start))

\* the clip of the single-clip path: the whole synthesized audio
SingleClip == Clip("single", 0, 0)

\* "except Exception" around the batch call: sys.exit raises SystemExit,
\* which is not an Exception
MainCatches_Nothing(kind) == FALSE

MainCatches(kind) == kind # "SystemExit"

\* the silence reports the engine can give on the batch audio
BatchPoints == {100, 200, 300, 400, 500}
BatchTotals == {600}
BatchReports == { ReportOf(S) : S \in { T \in SUBSET BatchPoints : Cardinality(T) <= MaxBatchEvents } }

\* --batch-split-silence-db and the --batch-split-silence-dur values tried
SplitDb == -40
SplitDurs == {50, 200}

\* ------------------------------------------------------------------------
\* mean_volume_db and match_audio_loudness
\* ------------------------------------------------------------------------
\* Levels are integers in thousandths of a dB, the resolution at which the
\* gain is handed to the engine ("volume={gain_db:.3f}dB").
\* one volumedetect run of the engine: its return code and the mean_volume
\* line of its output, None when the output has no such line
VolumeRun(rc, line) == [rc |-> rc, line |-> line]

Min(a, b) == IF a <= b THEN a ELSE b

\* mean_volume_db: None when the engine fails or prints no mean_volume line
mean_volume_db(volume_run) ==
    IF volume_run.rc # 0 THEN None
    ELSE IF volume_run.line = None THEN None
    ELSE volume_run.line

\* below this gain the source is copied unchanged
NegligibleGainMdb == 300
\* --name-loudness-max-gain-db, its default
DefaultMaxGainMdb == 8000

\* the written file: a copy of the source, or the source with a gain
CopyOfSource == [copy |-> TRUE, gain |-> None]
WithGain(gain_db) == [copy |-> FALSE, gain |-> <<gain_db>>]

\* match_audio_loudness without the clamp of the gain
match_audio_loudness_NoClamp(source_run, reference_run, max_gain) ==
    LET src_mean == mean_volume_db(source_run)
        ref_mean == mean_volume_db(reference_run)
    IN  IF src_mean = None \/ ref_mean = None THEN CopyOfSource
        ELSE LET gain_db == ref_mean[1] - src_mean[1]
             IN  IF Abs(gain_db) < NegligibleGainMdb THEN CopyOfSource
                 ELSE WithGain(gain_db)

match_audio_loudness(source_run, reference_run, max_gain) ==
    LET src_mean == mean_volume_db(source_run)
        ref_mean == mean_volume_db(reference_run)
    IN  IF src_mean = None \/ ref_mean = None THEN CopyOfSource
        ELSE LET gain_db == Max(0 - max_gain, Min(max_gain, ref_mean[1] - src_mean[1]))
             IN  IF Abs(gain_db) < NegligibleGainMdb THEN CopyOfSource
                 ELSE WithGain(gain_db)

\* the volumedetect runs the engine can give, and the maximum gains tried
VolumeRuns ==
    { VolumeRun(1, None), VolumeRun(0, None), VolumeRun(1, <<-23400>>) }
    \cup { VolumeRun(0, <<m>>) : m \in {-40000, -23700, -23400, -23200, -23100, -15400, -9000} }
MaxGains == {0, 200, 300, 6000, DefaultMaxGainMdb}

\* ------------------------------------------------------------------------
\* build_atempo_filter
\* ------------------------------------------------------------------------
\* Speeds and stage factors are integers in millionths, the resolution of
\* the residual stage ("atempo={remaining:.6f}"); the running value
\* "remaining" is the exact fraction num / den of millionths.
AtempoOne == 1000000
AtempoMax == 2000000
AtempoMin == 500000

\* f"{remaining:.6f}": num / den rounded to the nearest millionth, a tie to
\* the even one
FormatAtempo6(num, den) ==
    LET q == num \div den
        r == num % den
    IN  IF 2 * r > den THEN q + 1
        ELSE IF 2 * r < den THEN q
        ELSE IF q % 2 = 0 THEN q ELSE q + 1

\* while remaining > 2.0: one more stage 2.0, remaining /= 2.0
RECURSIVE HalveLoop(_, _, _)
HalveLoop(stages, num, den) ==
    IF num > 2 * AtempoOne * den
    THEN HalveLoop(Append(stages, AtempoMax), num, 2 * den)
    ELSE <<stages, num, den>>

\* while remaining < 0.5: one more stage 0.5, remaining /= 0.5
RECURSIVE DoubleLoop(_, _, _)
DoubleLoop(stages, num, den) ==
    IF 2 * num < AtempoOne * den
    THEN DoubleLoop(Append(stages, AtempoMin), 2 * num, den)
    ELSE <<stages, num, den>>

\* build_atempo_filter as one stage, whatever the speed
build_atempo_filter_OneStage(atempo_speed) ==
    IF atempo_speed <= 0 THEN <<AtempoOne>> ELSE <<atempo_speed>>

\* build_atempo_filter: the chain of stage factors, in order
build_atempo_filter(atempo_speed) ==
    IF atempo_speed <= 0 THEN <<AtempoOne>>
    ELSE LET halved == HalveLoop(<<>>, atempo_speed, 1)
             doubled == DoubleLoop(halved[1], halved[2], halved[3])
         IN  Append(doubled[1], FormatAtempo6(doubled[2], doubled[3]))

\* the speeds the filter is asked for
AtempoSpeeds ==
    {-1000000, 0, 100000, 200000, 250000, 499999, 500000, 1000000, 1351351,
     2000000, 2000001, 3000000, 3000001, 4000000, 5000000, 8000003}

\* ------------------------------------------------------------------------
\* build_personalized_video: the tier policies
\* ------------------------------------------------------------------------
\* the pieces an assembled audio track is made of: base audio from one
\* instant to another, the name clip played for a duration through a chain
\* of atempo stages (none at natural pace), and generated silence
BasePiece(from, to) == [kind |-> "base", from |-> from, to |-> to, chain |-> <<>>]
NamePiece(dur, chain) == [kind |-> "name", from |-> 0, to |-> dur, chain |-> chain]
GapPiece(dur) == [kind |-> "gap", from |-> 0, to |-> dur, chain |-> <<>>]

\* "-ss start -t dur" on the base audio, which ends at base_duration
BaseCut(start, dur, base_duration) ==
    BasePiece(Min(start, base_duration), Min(start + dur, base_duration))

\* "-ss start" on the base audio: from start to the end of the file
BaseFrom(start, base_duration) == BasePiece(Min(start, base_duration), base_duration)

\* the optional silence after the name
GapPieces(gap) == IF gap > 0 THEN <<GapPiece(gap)>> ELSE <<>>

RECURSIVE PiecesDuration(_)
PiecesDuration(pieces) ==
    IF pieces = <<>> THEN 0
    ELSE (Head(pieces).to - Head(pieces).from) + PiecesDuration(Tail(pieces))

\* a detected segment shorter than this is replaced by a slot of fixed length
ShortSegmentMs == 120
\* Silver without a detected segment replaces at least this much
SilverFallbackMs == 200
\* --silver-replace-seconds, --silver-gap-seconds, --diamond-gap-seconds
SilverReplaceMs == 450
SilverGapMs == 120
DiamondGapMs == 120
\* the slot of Diamond natural mode for a short detected segment
DiamondReplaceMs == 350
\* --gold-max-name-seconds, --gold-end-guard-seconds
GoldMaxNameMs == 500
GoldEndGuardMs == 80
\* the floor of the Gold slot, and the length at which it counts as too short
GoldMinTargetMs == 120
GoldTooShortMs == 50
\* --platinum-max-placeholder-seconds, --platinum-min-silence-dur
PlatinumMaxPlaceholderMs == 900
\* the shortest piece of base audio cut before a marker
PlatinumMinPieceMs == 10

\* Silver: (speech_start, speech_end) from the detected segment
SilverSlot(seg, base_duration, silver_replace) ==
    IF seg = None
    THEN <<0, Min(base_duration, Max(SilverFallbackMs, silver_replace))>>
    ELSE IF (seg[2] - seg[1]) < ShortSegmentMs
    THEN <<seg[1], Min(base_duration, seg[1] + silver_replace)>>
    ELSE seg

\* Silver: the suffix taken from the end of the detected segment
SilverAssemble_FromSegmentEnd(seg, slot, name_dur, gap, base_duration) ==
    <<NamePiece(name_dur, <<>>)>> \o GapPieces(gap)
        \o <<BaseFrom(IF seg = None THEN slot[2] ELSE seg[2], base_duration)>>

\* Silver: name at natural pace, gap, base audio after the slot
SilverAssemble(seg, slot, name_dur, gap, base_duration) ==
    <<NamePiece(name_dur, <<>>)>> \o GapPieces(gap) \o <<BaseFrom(slot[2], base_duration)>>

\* Gold: target_dur from the detected segment, the cap and the end guard
GoldTarget(seg, gold_max_name, gold_end_guard) ==
    LET raw == Max(0, seg[2] - seg[1])
        capped == IF raw > gold_max_name THEN gold_max_name ELSE raw
    IN  Max(GoldMinTargetMs, capped - Max(0, gold_end_guard))

\* Gold: the check that raises "too-short generic-name segment"
GoldTooShort(target_dur) == target_dur <= GoldTooShortMs

\* Gold: speed = source_dur / target_dur, to the millionth
GoldSpeed(source_dur, target_dur) ==
    IF target_dur > 0 THEN (source_dur * AtempoOne) \div target_dur ELSE AtempoOne

\* Gold: prefix, the name fitted to target_dur, suffix
GoldAssemble(speech_start, target_dur, name_dur, base_duration) ==
    <<BaseCut(0, speech_start, base_duration),
      NamePiece(target_dur, build_atempo_filter(GoldSpeed(name_dur, target_dur))),
      BaseFrom(speech_start + target_dur, base_duration)>>

\* Diamond natural: the slot taken as detected
DiamondSlot_AsDetected(seg, base_duration) == seg

\* Diamond natural: the slot, extended for a short detected segment
DiamondSlot(seg, base_duration) ==
    IF (seg[2] - seg[1]) < ShortSegmentMs
    THEN <<seg[1], Min(base_duration, seg[1] + DiamondReplaceMs)>>
    ELSE seg

\* Diamond natural: prefix, name at natural pace, gap, suffix
DiamondAssemble(slot, name_dur, gap, base_duration) ==
    <<BaseCut(0, slot[1], base_duration), NamePiece(name_dur, <<>>)>>
        \o GapPieces(gap) \o <<BaseFrom(slot[2], base_duration)>>

\* Platinum: the placeholder tokens of --platinum-placeholders, split at ","
\* (a token is a sequence of characters); blank tokens are dropped and an
\* empty list stands for one placeholder
RECURSIVE NonBlankTokens(_)
NonBlankTokens(tokens) ==
    IF tokens = <<>> THEN <<>>
    ELSE IF Strip(Head(tokens)) = <<>> THEN NonBlankTokens(Tail(tokens))
    ELSE <<Strip(Head(tokens))>> \o NonBlankTokens(Tail(tokens))

PlatinumPlaceholders(tokens) ==
    IF NonBlankTokens(tokens) = <<>> THEN << <<"NAME1">> >> ELSE NonBlankTokens(tokens)

\* Platinum: the detected segments no longer than the maximum
RECURSIVE MarkerSegments(_, _)
MarkerSegments(segs, max_placeholder) ==
    IF segs = <<>> THEN <<>>
    ELSE IF (Head(segs)[2] - Head(segs)[1]) <= max_placeholder
    THEN <<Head(segs)>> \o MarkerSegments(Tail(segs), max_placeholder)
    ELSE MarkerSegments(Tail(segs), max_placeholder)

\* Platinum without the check of the number of marker segments
PlatinumTooFew_Never(marker_segments, target_count) == FALSE

\* Platinum: fewer marker segments than placeholders raises
PlatinumTooFew(marker_segments, target_count) == Len(marker_segments) < target_count

\* marker_segments[:target_count]
FirstMarkers(marker_segments, target_count) ==
    SubSeq(marker_segments, 1, Min(target_count, Len(marker_segments)))

\* Platinum: the loop over the markers with the cursor left at the start of
\* the marker
RECURSIVE PlatinumLoop_CursorAtStart(_, _, _, _, _, _)
PlatinumLoop_CursorAtStart(markers, cursor, concat_inputs, name_dur, gap, base_duration) ==
    IF markers = <<>> THEN <<cursor, concat_inputs>>
    ELSE LET seg_start == Head(markers)[1]
             pre == IF seg_start > cursor
                    THEN <<BaseCut(cursor, Max(PlatinumMinPieceMs, seg_start - cursor), base_duration)>>
                    ELSE <<>>
         IN  PlatinumLoop_CursorAtStart(Tail(markers), seg_start,
                          concat_inputs \o pre \o <<NamePiece(name_dur, <<>>)>> \o GapPieces(gap),
                          name_dur, gap, base_duration)

\* Platinum: the loop over the markers: base audio from the cursor to the
\* marker, the name, the gap; the cursor moves to the end of the marker
RECURSIVE PlatinumLoop(_, _, _, _, _, _)
PlatinumLoop(markers, cursor, concat_inputs, name_dur, gap, base_duration) ==
    IF markers = <<>> THEN <<cursor, concat_inputs>>
    ELSE LET seg_start == Head(markers)[1]
             seg_end == Head(markers)[2]
             pre == IF seg_start > cursor
                    THEN <<BaseCut(cursor, Max(PlatinumMinPieceMs, seg_start - cursor), base_duration)>>
                    ELSE <<>>
         IN  PlatinumLoop(Tail(markers), seg_end,
                          concat_inputs \o pre \o <<NamePiece(name_dur, <<>>)>> \o GapPieces(gap),
                          name_dur, gap, base_duration)

\* Platinum: the loop, then the tail of the base audio after the last marker
PlatinumAssemble(markers, name_dur, gap, base_duration) ==
    LET looped == PlatinumLoop(markers, 0, <<>>, name_dur, gap, base_duration)
        cursor == looped[1]
    IN  IF base_duration > cursor
        THEN Append(looped[2], BaseFrom(cursor, base_duration))
        ELSE looped[2]

\* detect_speech_end: the last silence_start of the report, None without one
RECURSIVE detect_speech_end(_)
detect_speech_end(rep) ==
    IF rep = <<>> THEN None
    ELSE IF rep[Len(rep)].typ = "silence_start" THEN <<rep[Len(rep)].ts>>
    ELSE detect_speech_end(SubSeq(rep, 1, Len(rep) - 1))

\* trailing name: how much of the base audio is kept before the name
KeepDuration(speech_end, base_duration, tts_duration) ==
    IF speech_end = None THEN Max(0, base_duration - tts_duration)
    ELSE Max(0, Min(base_duration, speech_end[1]))

\* trailing name: the kept base audio, then the name
TrailingAssemble(keep_duration, name_dur, base_duration) ==
    <<BaseCut(0, keep_duration, base_duration), NamePiece(name_dur, <<>>)>>

\* the policy when the name position is looked at before the insert mode
PolicyOf_EndIsTrailing(opt) ==
    IF opt.name_position = "end" THEN "trailing"
    ELSE IF opt.insert_mode = "silver" THEN "silver"
    ELSE IF opt.platinum_mode THEN "platinum"
    ELSE IF opt.diamond_natural_name THEN "diamond"
    ELSE "gold"

\* the policy build_personalized_video follows for its arguments
PolicyOf(opt) ==
    IF opt.insert_mode = "silver" THEN "silver"
    ELSE IF opt.insert_mode = "gold" /\ opt.name_position = "start"
    THEN IF opt.platinum_mode THEN "platinum"
         ELSE IF opt.diamond_natural_name THEN "diamond"
         ELSE "gold"
    ELSE "trailing"

\* the written file: container, audio track, the "-t" limit of the mux, and
\* whether the lip-sync pass has replaced it
OutputFile(ext, audio, limit) ==
    [ext |-> ext, audio |-> audio, limit |-> limit, synced |-> FALSE]

\* output_ext
OutputExt(insert_mode) == IF insert_mode = "silver" THEN "mp3" ELSE "mp4"

\* the duration of a written file when the mux stops at its shortest stream
OutputDuration_Shortest(file, video_duration) ==
    LET audio == PiecesDuration(file.audio)
        streams == IF file.ext = "mp3" THEN audio ELSE Min(video_duration, audio)
    IN  IF file.limit = None THEN streams ELSE Min(streams, file.limit[1])

\* the duration of a written file: an mp3 lasts as long as its audio; an mp4
\* maps the copied video stream and the audio track without "-shortest", so
\* it lasts as long as the longer of the two, cut at the "-t" limit if any
OutputDuration(file, video_duration) ==
    LET audio == PiecesDuration(file.audio)
        streams == IF file.ext = "mp3" THEN audio ELSE Max(video_duration, audio)
    IN  IF file.limit = None THEN streams ELSE Min(streams, file.limit[1])

\* the arguments of build_personalized_video that select and tune a policy,
\* at the defaults of the command line; cached tells whether main passes a
\* name clip of the cache (name_audio_wav)
DefaultOptions ==
    [insert_mode |-> "silver", name_position |-> "start",
     platinum_mode |-> FALSE, diamond_natural_name |-> FALSE,
     dry_run |-> FALSE, cached |-> TRUE, tts_provider |-> "elevenlabs",
     lip_sync_provider |-> "none",
     silver_replace |-> SilverReplaceMs, silver_gap |-> SilverGapMs,
     diamond_gap |-> DiamondGapMs,
     gold_max_name |-> GoldMaxNameMs, gold_end_guard |-> GoldEndGuardMs,
     platinum_placeholders |-> << <<"NAME1">>, <<"NAME2">> >>,
     platinum_max_placeholder |-> PlatinumMaxPlaceholderMs]

SilverOptions ==
    { [DefaultOptions EXCEPT !.name_position = p, !.silver_gap = g, !.cached = c,
                             !.lip_sync_provider = l] :
        p \in {"start", "end"}, g \in {0, SilverGapMs}, c \in BOOLEAN, l \in {"none", "wav2lip"} }

GoldOptions ==
    { [DefaultOptions EXCEPT !.insert_mode = "gold", !.cached = c, !.lip_sync_provider = l] :
        c \in BOOLEAN, l \in {"none", "wav2lip", "sync_api"} }

DiamondOptions ==
    { [DefaultOptions EXCEPT !.insert_mode = "gold", !.diamond_natural_name = TRUE,
                             !.diamond_gap = g, !.lip_sync_provider = l] :
        g \in {0, DiamondGapMs}, l \in {"none", "wav2lip"} }

PlaceholderLists ==
    { << <<"NAME1">>, <<"NAME2">> >>, << <<"NAME1">> >>, << <<" ">> >>,
      << <<" ", "NAME1">>, <<>>, <<"NAME2">> >> }

PlatinumOptions ==
    { [DefaultOptions EXCEPT !.insert_mode = "gold", !.platinum_mode = TRUE,
                             !.diamond_natural_name = d, !.diamond_gap = g,
                             !.platinum_placeholders = ph] :
        d \in BOOLEAN, g \in {0, DiamondGapMs}, ph \in PlaceholderLists }

TrailingOptions ==
    { [DefaultOptions EXCEPT !.insert_mode = "gold", !.name_position = "end",
                             !.platinum_mode = pm, !.lip_sync_provider = l] :
        pm \in BOOLEAN, l \in {"none", "wav2lip"} }

OtherOptions ==
    { [DefaultOptions EXCEPT !.insert_mode = m, !.dry_run = dr, !.cached = FALSE,
                             !.tts_provider = tp] :
        m \in {"silver", "gold"}, dr \in BOOLEAN, tp \in {"none"} }

TierOptions ==
    SilverOptions \cup GoldOptions \cup DiamondOptions \cup PlatinumOptions
        \cup TrailingOptions \cup OtherOptions

\* the silence reports of the base media, its durations and the natural
\* durations of the name clip
TierPoints == {0, 5, 100, 400, 1200, 1230, 2000, 3000}
BaseDurations == {300, 5000}
NameDurations == {700}
TierReports(base_duration) ==
    { ReportOf(S) : S \in { T \in SUBSET { p \in TierPoints : p < base_duration } :
                              Cardinality(T) <= MaxTierEvents } }

\* the shared name-audio cache directory: file name -> clip, and how many
\* times each file name was written
VARIABLES cache, writes

\* one run of main
VARIABLES pc, unique_names, name_to_wav, split, missing, found, batchTotal,
          segments, trials, idx, batchOutcome, raised, abortedBy, tts

jobvars == <<pc, unique_names, name_to_wav, split, missing, found, batchTotal,
             segments, trials, idx, batchOutcome, raised, abortedBy>>

mvars == <<cache, writes, jobvars, tts>>

Put(f, k, v) == (k :> v) @@ f

CountWrite(w, file) ==
    IF file \in DOMAIN w THEN [w EXCEPT ![file] = @ + 1] ELSE Put(w, file, 1)

TtsRequest(text, ok) == [text |-> text, ok |-> ok]

JobLocalsReset ==
    /\ unique_names = <<>>
    /\ name_to_wav = <<>>
    /\ split = <<>>
    /\ missing = <<>>
    /\ found = <<>>
    /\ batchTotal = 0
    /\ segments = <<>>
    /\ trials = <<>>
    /\ idx = 1
    /\ batchOutcome = "none"
    /\ raised = "none"
    /\ abortedBy = "none"

MainIdle ==
    /\ cache = <<>>
    /\ writes = <<>>
    /\ pc = "idle"
    /\ tts = None
    /\ JobLocalsReset

\* ------------------------------------------------------------------------
\* Specification of the interval detector: the engine reports, the two
\* queries are applied to the report
\* ------------------------------------------------------------------------
\* durations of the probed file; every reported silence starts inside the file
Totals == {3990, 4000, 4050, 5000}

VARIABLES report, total, firstSpeech, nonsilent, dpc

dvars == <<report, total, firstSpeech, nonsilent, dpc>>

\* state of the cache-key comparison: two configurations and their keys
VARIABLES cfgA, cfgB, keyA, keyB, kpc

kvars == <<cfgA, cfgB, keyA, keyB, kpc>>

\* state of the loudness and tempo utilities: the two volumedetect runs, the
\* maximum gain and the written file; the requested speed and its chain
VARIABLES lsrc, lref, lmax, lout, aspeed, achain, fpc

fvars == <<lsrc, lref, lmax, lout, aspeed, achain, fpc>>

\* one call of build_personalized_video: its arguments, the base media, its
\* position, the stages it ran, its locals and the file it wrote
VARIABLES topt, treport, tbase, tname, tpc, tstages, tseg, tslot, tmarkers,
          tmerged, toutput, terr

tvars == <<topt, treport, tbase, tname, tpc, tstages, tseg, tslot, tmarkers,
           tmerged, toutput, terr>>

\* main's loop over the recipients: the options, the name cells in file
\* order, the loop index, the names attempted and created, the output
\* directory (path -> the name whose clip the file holds) and the exit code
VARIABLES lopt, lrows, li, attempted, created, outdir, lpc, lexit

lvars == <<lopt, lrows, li, attempted, created, outdir, lpc, lexit>>

\* the variables of the utilities, the build and the recipients loop
\* one run of run_pipeline on a stored job
VARIABLES joptions, jrows, jstatus, jerror, jzip, jpc, jexc, jpolicy, jresults,
          jreturncode

jvars == <<joptions, jrows, jstatus, jerror, jzip, jpc, jexc, jpolicy, jresults,
           jreturncode>>

\* the server: the clock, the job store, the job directories, the voice
\* cache file, the cloning calls made, and the requests in progress
VARIABLES clock, store, dirs, voice_cache, clones, req

svars == <<clock, store, dirs, voice_cache, clones, req>>

\* one file of the shared name-audio cache and the jobs that want it
VARIABLES cfile, wmode, wtmp, wread, wpc

cvars == <<cfile, wmode, wtmp, wread, wpc>>

bvars == <<jvars, svars, cvars>>

uvars == <<fvars, tvars, lvars, bvars>>

vars == <<dvars, kvars, mvars, uvars>>

DetectIdle ==
    /\ report = <<>>
    /\ total = 0
    /\ firstSpeech = None
    /\ nonsilent = <<>>
    /\ dpc = "idle"

KeyIdle ==
    /\ cfgA = <<>>
    /\ cfgB = <<>>
    /\ keyA = <<>>
    /\ keyB = <<>>
    /\ kpc = "idle"

FitIdle ==
    /\ lsrc = <<>>
    /\ lref = <<>>
    /\ lmax = 0
    /\ lout = <<>>
    /\ aspeed = 0
    /\ achain = <<>>
    /\ fpc = "idle"

TierIdle ==
    /\ topt = <<>>
    /\ treport = <<>>
    /\ tbase = 0
    /\ tname = 0
    /\ tpc = "idle"
    /\ tstages = <<>>
    /\ tseg = None
    /\ tslot = None
    /\ tmarkers = <<>>
    /\ tmerged = <<>>
    /\ toutput = None
    /\ terr = "none"

LoopIdle ==
    /\ lopt = <<>>
    /\ lrows = <<>>
    /\ li = 1
    /\ attempted = <<>>
    /\ created = <<>>
    /\ outdir = <<>>
    /\ lpc = "idle"
    /\ lexit = None

PipelineIdle ==
    /\ joptions = <<>>
    /\ jrows = 0
    /\ jstatus = "none"
    /\ jerror = None
    /\ jzip = None
    /\ jpc = "idle"
    /\ jexc = None
    /\ jpolicy = None
    /\ jresults = <<>>
    /\ jreturncode = None

ServerIdle ==
    /\ clock = 0
    /\ store = <<>>
    /\ dirs = <<>>
    /\ voice_cache = <<>>
    /\ clones = <<>>
    /\ req = <<>>

ShareIdle ==
    /\ cfile = None
    /\ wmode = <<>>
    /\ wtmp = <<>>
    /\ wread = <<>>
    /\ wpc = <<>>

BackendIdle == PipelineIdle /\ ServerIdle /\ ShareIdle

UtilitiesIdle == FitIdle /\ TierIdle /\ LoopIdle /\ BackendIdle

DetectInit ==
    /\ report \in Reports
    /\ total \in Totals
    /\ firstSpeech = None
    /\ nonsilent = <<>>
    /\ dpc = "reported"
    /\ KeyIdle
    /\ MainIdle
    /\ UtilitiesIdle

DetectFirstSpeech ==
    /\ dpc = "reported"
    /\ firstSpeech' = detect_first_speech_segment(report)
    /\ dpc' = "first_speech"
    /\ UNCHANGED <<report, total, nonsilent, kvars, mvars, uvars>>

DetectNonsilent ==
    /\ dpc = "reported"
    /\ nonsilent' = detect_nonsilent_segments(report, total, MinSegmentMs)
    /\ dpc' = "nonsilent"
    /\ UNCHANGED <<report, total, firstSpeech, kvars, mvars, uvars>>

DetectNext == DetectFirstSpeech \/ DetectNonsilent

SpecDetect == DetectInit /\ [][DetectNext]_vars

\* ------------------------------------------------------------------------
\* Specification of the cache key: the key of a configuration is compared
\* with the key of a second invocation, with the same configuration or with
\* one argument changed
\* ------------------------------------------------------------------------
KeyInit ==
    /\ cfgA \in Configs
    /\ cfgB = <<>>
    /\ keyA = <<>>
    /\ keyB = <<>>
    /\ kpc = "configured"
    /\ DetectIdle
    /\ MainIdle
    /\ UtilitiesIdle

SameConfigAgain ==
    /\ kpc = "configured"
    /\ cfgB' = cfgA
    /\ keyA' = name_audio_cache_key(cfgA)
    /\ keyB' = name_audio_cache_key(cfgB')
    /\ kpc' = "compared"
    /\ UNCHANGED <<cfgA, dvars, mvars, uvars>>

ChangeOneArgument ==
    /\ kpc = "configured"
    /\ \E f \in ConfigFields :
          \E v \in ConfigDomain[f] \ {cfgA[f]} :
             cfgB' = [cfgA EXCEPT ![f] = v]
    /\ keyA' = name_audio_cache_key(cfgA)
    /\ keyB' = name_audio_cache_key(cfgB')
    /\ kpc' = "compared"
    /\ UNCHANGED <<cfgA, dvars, mvars, uvars>>

KeyNext == SameConfigAgain \/ ChangeOneArgument

SpecKey == KeyInit /\ [][KeyNext]_vars

\* ------------------------------------------------------------------------
\* Specification of the cache-build phase: jobs run one after the other on
\* the shared cache directory
\* ------------------------------------------------------------------------
Init ==
    /\ cache = <<>>
    /\ writes = <<>>
    /\ pc = "start"
    /\ tts = None
    /\ JobLocalsReset
    /\ DetectIdle
    /\ KeyIdle
    /\ UtilitiesIdle

\* the variables of the other specifications
others == <<dvars, kvars, uvars>>

\* the arguments and locals of ensure_name_clips_batch_tts
batchLocals == <<split, missing, found, batchTotal, segments, trials>>

BatchLocalsFreed ==
    /\ split' = <<>>
    /\ missing' = <<>>
    /\ found' = <<>>
    /\ batchTotal' = 0
    /\ segments' = <<>>
    /\ trials' = <<>>

Exists(name) == CacheFile(name) \in DOMAIN cache

\* main up to the batch call: read the rows, build unique_names
MainStart ==
    /\ pc = "start"
    /\ \E rows \in RowLists, batch_name_tts \in BOOLEAN, dur \in SplitDurs :
          /\ unique_names' = UniqueNames(rows)
          /\ IF batch_enabled(batch_name_tts, JobConfig.tts_provider)
             THEN pc' = "batch_scan" /\ split' = [db |-> SplitDb, dur |-> dur]
             ELSE pc' = "single_loop" /\ split' = <<>>
    /\ tts' = None
    /\ UNCHANGED <<cache, writes, name_to_wav, idx, batchOutcome, raised, abortedBy,
                   missing, found, batchTotal, segments, trials, others>>

\* an exception of the given kind leaves ensure_name_clips_batch_tts
BatchRaises(kind, outcome) ==
    /\ batchOutcome' = outcome
    /\ raised' = kind
    /\ pc' = "batch_raised"

\* ensure_name_clips_batch_tts, the scan of the names: cached or missing
BatchScan ==
    /\ pc = "batch_scan"
    /\ LET IsMissing(n) == ~Exists(n)
           cached == { unique_names[i] : i \in { j \in Indices(unique_names) : Exists(unique_names[j]) } }
           scanned == [n \in cached |-> CacheFile(n)]
           miss == SelectSeq(unique_names, IsMissing)
       IN  IF miss = <<>>
           THEN /\ name_to_wav' = scanned @@ name_to_wav
                /\ batchOutcome' = "returned"
                /\ pc' = "single_loop"
                /\ split' = <<>>
                /\ UNCHANGED <<missing, found>>
           ELSE /\ missing' = miss
                /\ found' = scanned
                /\ pc' = "batch_tts"
                /\ UNCHANGED <<name_to_wav, batchOutcome, split>>
    /\ tts' = None
    /\ UNCHANGED <<cache, writes, unique_names, idx, raised, abortedBy,
                   batchTotal, segments, trials, others>>

\* one synthesis request for the text of all missing names, and its
\* conversion to WAV
BatchTts ==
    /\ pc = "batch_tts"
    /\ tts' = TtsRequest(missing, TRUE)
    /\ batchTotal' \in BatchTotals
    /\ pc' = "batch_detect"
    /\ UNCHANGED <<cache, writes, unique_names, name_to_wav, split, idx, batchOutcome, raised,
                   abortedBy, missing, found, segments, trials, others>>

\* the provider or the conversion fails (RuntimeError), or a tts_* helper
\* calls die (SystemExit)
BatchTtsFails ==
    /\ pc = "batch_tts"
    /\ tts' = TtsRequest(missing, FALSE)
    /\ \E kind \in {"RuntimeError", "SystemExit"} : BatchRaises(kind, "tts_failed")
    /\ UNCHANGED <<cache, writes, unique_names, name_to_wav, idx, abortedBy,
                   batchLocals, others>>

\* one trial of the split ladder
BatchDetect ==
    /\ pc = "batch_detect"
    /\ \E rep \in BatchReports :
          LET trial == Len(trials) + 1
              setting == split_trials(split.db, split.dur)[trial]
              segs == detect_nonsilent_segments(rep, batchTotal, MinSegmentMs)
              decision == SplitDecision(Len(segs), Len(missing), trial)
          IN  /\ segments' = segs
              /\ trials' = Append(trials, [db |-> setting[1], dur |-> setting[2], n |-> Len(segs)])
              /\ CASE decision = "accept" ->
                        /\ pc' = "batch_extract"
                        /\ idx' = 1
                        /\ UNCHANGED <<batchOutcome, raised>>
                   [] decision = "retry" ->
                        UNCHANGED <<pc, idx, batchOutcome, raised>>
                   [] OTHER ->
                        /\ BatchRaises("RuntimeError", "split_failed")
                        /\ UNCHANGED idx
    /\ tts' = None
    /\ UNCHANGED <<cache, writes, unique_names, name_to_wav, split, abortedBy,
                   missing, found, batchTotal, others>>

\* silencedetect exits with an error
BatchDetectFails ==
    /\ pc = "batch_detect"
    /\ BatchRaises("RuntimeError", "detect_failed")
    /\ tts' = None
    /\ UNCHANGED <<cache, writes, unique_names, name_to_wav, idx, abortedBy,
                   batchLocals, others>>

\* the extraction loop, one name: ffmpeg -y writes the clip of segments[idx]
\* to the cache file of missing[idx] (segments[idx] exists after an accepted
\* detection; it would be an IndexError otherwise)
BatchExtract ==
    /\ pc = "batch_extract"
    /\ idx <= Len(missing)
    /\ idx <= Len(segments)
    /\ LET name == missing[idx]
           out == CacheFile(name)
       IN  /\ cache' = Put(cache, out, ExtractedClip(segments, idx))
           /\ writes' = CountWrite(writes, out)
           /\ found' = Put(found, name, out)
    /\ idx' = idx + 1
    /\ tts' = None
    /\ UNCHANGED <<pc, unique_names, name_to_wav, split, batchOutcome, raised, abortedBy,
                   missing, batchTotal, segments, trials, others>>

\* ffmpeg fails on an extraction
BatchExtractFails ==
    /\ pc = "batch_extract"
    /\ idx <= Len(missing)
    /\ BatchRaises("RuntimeError", "extract_failed")
    /\ tts' = None
    /\ UNCHANGED <<cache, writes, unique_names, name_to_wav, idx, abortedBy,
                   batchLocals, others>>

\* the batch call returns its dictionary and main merges it
BatchReturn ==
    /\ pc = "batch_extract"
    /\ idx > Len(missing)
    /\ name_to_wav' = found @@ name_to_wav
    /\ batchOutcome' = "returned"
    /\ pc' = "single_loop"
    /\ idx' = 1
    /\ tts' = None
    /\ BatchLocalsFreed
    /\ UNCHANGED <<cache, writes, unique_names, raised, abortedBy, others>>

\* the exception reaches main: "except Exception" prints it and main goes on
\* with the per-name loop; any other exception ends the process
MainHandlesBatchError ==
    /\ pc = "batch_raised"
    /\ IF MainCatches(raised)
       THEN pc' = "single_loop" /\ abortedBy' = abortedBy
       ELSE pc' = "aborted" /\ abortedBy' = "batch"
    /\ idx' = 1
    /\ tts' = None
    /\ BatchLocalsFreed
    /\ UNCHANGED <<cache, writes, unique_names, name_to_wav, batchOutcome, raised, others>>

InSingleLoop == pc = "single_loop" /\ idx <= Len(unique_names)

\* "if n in name_to_wav and name_to_wav[n].exists(): continue"
AlreadyMapped(n) == n \in DOMAIN name_to_wav /\ name_to_wav[n] \in DOMAIN cache

SingleSkip ==
    /\ InSingleLoop
    /\ AlreadyMapped(unique_names[idx])
    /\ idx' = idx + 1
    /\ tts' = None
    /\ UNCHANGED <<cache, writes, pc, unique_names, name_to_wav, batchOutcome, raised,
                   abortedBy, batchLocals, others>>

\* ensure_name_clip_wav finds the file and returns its path
SingleCached ==
    /\ InSingleLoop
    /\ ~AlreadyMapped(unique_names[idx])
    /\ Exists(unique_names[idx])
    /\ name_to_wav' = Put(name_to_wav, unique_names[idx], CacheFile(unique_names[idx]))
    /\ idx' = idx + 1
    /\ tts' = None
    /\ UNCHANGED <<cache, writes, pc, unique_names, batchOutcome, raised, abortedBy,
                   batchLocals, others>>

\* ensure_name_clip_wav synthesizes the name and moves the WAV to the cache
SingleSynth ==
    /\ InSingleLoop
    /\ ~AlreadyMapped(unique_names[idx])
    /\ ~Exists(unique_names[idx])
    /\ LET name == unique_names[idx]
           out_wav == CacheFile(name)
       IN  /\ tts' = TtsRequest(<<name>>, TRUE)
           /\ cache' = Put(cache, out_wav, SingleClip)
           /\ writes' = CountWrite(writes, out_wav)
           /\ name_to_wav' = Put(name_to_wav, name, out_wav)
    /\ idx' = idx + 1
    /\ UNCHANGED <<pc, unique_names, batchOutcome, raised, abortedBy, batchLocals, others>>

\* the synthesis or the conversion fails: nothing catches it in main
SingleFails ==
    /\ InSingleLoop
    /\ ~AlreadyMapped(unique_names[idx])
    /\ ~Exists(unique_names[idx])
    /\ tts' = TtsRequest(<<unique_names[idx]>>, FALSE)
    /\ pc' = "aborted"
    /\ abortedBy' = "single"
    /\ UNCHANGED <<cache, writes, unique_names, name_to_wav, idx, batchOutcome, raised,
                   batchLocals, others>>

SingleDone ==
    /\ pc = "single_loop"
    /\ idx > Len(unique_names)
    /\ pc' = "cache_built"
    /\ tts' = None
    /\ UNCHANGED <<cache, writes, unique_names, name_to_wav, idx, batchOutcome, raised,
                   abortedBy, batchLocals, others>>

\* the next job starts on the same cache directory
NextJob ==
    /\ pc \in {"cache_built", "aborted"}
    /\ pc' = "start"
    /\ tts' = None
    /\ unique_names' = <<>>
    /\ name_to_wav' = <<>>
    /\ idx' = 1
    /\ batchOutcome' = "none"
    /\ raised' = "none"
    /\ abortedBy' = "none"
    /\ UNCHANGED <<cache, writes, batchLocals, others>>

Next ==
    \/ MainStart
    \/ BatchScan
    \/ BatchTts
    \/ BatchTtsFails
    \/ BatchDetect
    \/ BatchDetectFails
    \/ BatchExtract
    \/ BatchExtractFails
    \/ BatchReturn
    \/ MainHandlesBatchError
    \/ SingleSkip
    \/ SingleCached
    \/ SingleSynth
    \/ SingleFails
    \/ SingleDone
    \/ NextJob

Spec == Init /\ [][Next]_vars

\* the variables of the detector, the cache key and the cache build
olds == <<dvars, kvars, mvars, bvars>>

\* ------------------------------------------------------------------------
\* Specification of the loudness and tempo utilities: each is applied to
\* the arguments it is called with
\* ------------------------------------------------------------------------
FitInit ==
    /\ lsrc \in VolumeRuns
    /\ lref \in VolumeRuns
    /\ lmax \in MaxGains
    /\ lout = <<>>
    /\ aspeed \in AtempoSpeeds
    /\ achain = <<>>
    /\ fpc = "called"
    /\ TierIdle
    /\ LoopIdle
    /\ DetectIdle
    /\ KeyIdle
    /\ MainIdle
    /\ BackendIdle

MatchLoudness ==
    /\ fpc = "called"
    /\ lout' = match_audio_loudness(lsrc, lref, lmax)
    /\ fpc' = "matched"
    /\ UNCHANGED <<lsrc, lref, lmax, aspeed, achain, tvars, lvars, olds>>

BuildAtempo ==
    /\ fpc = "called"
    /\ achain' = build_atempo_filter(aspeed)
    /\ fpc' = "chained"
    /\ UNCHANGED <<lsrc, lref, lmax, lout, aspeed, tvars, lvars, olds>>

FitNext == MatchLoudness \/ BuildAtempo

SpecFit == FitInit /\ [][FitNext]_vars

\* ------------------------------------------------------------------------
\* Specification of one call of build_personalized_video
\* ------------------------------------------------------------------------
TierInit ==
    /\ topt \in TierOptions
    /\ tbase \in BaseDurations
    /\ treport \in TierReports(tbase)
    /\ tname \in NameDurations
    /\ tpc = "start"
    /\ tstages = <<>>
    /\ tseg = None
    /\ tslot = None
    /\ tmarkers = <<>>
    /\ tmerged = <<>>
    /\ toutput = None
    /\ terr = "none"
    /\ FitIdle
    /\ LoopIdle
    /\ DetectIdle
    /\ KeyIdle
    /\ MainIdle
    /\ BackendIdle

\* the arguments and the media of the call
tinputs == <<topt, treport, tbase, tname>>
\* the locals set by the detection
tlocals == <<tseg, tslot, tmarkers>>
\* everything outside the call
notTier == <<fvars, lvars, olds>>

\* the output path is computed; a dry run returns it without writing
BuildStart ==
    /\ tpc = "start"
    /\ tpc' = IF topt.dry_run THEN "done"
              ELSE IF topt.cached THEN "probe" ELSE "synth"
    /\ UNCHANGED <<tinputs, tstages, tlocals, tmerged, toutput, terr, notTier>>

\* the stage raises: RuntimeError ends the call, SystemExit the program
StageRaises(stage, kind) ==
    /\ tstages' = Append(tstages, stage)
    /\ tpc' = IF kind = "SystemExit" THEN "exited" ELSE "failed"
    /\ terr' = kind

\* the text is synthesized and the clip probed
Synthesize ==
    /\ tpc = "synth"
    /\ topt.tts_provider # "none"
    /\ tstages' = Append(tstages, "Synthesizing")
    /\ tpc' = "probe"
    /\ UNCHANGED <<tinputs, tlocals, tmerged, toutput, terr, notTier>>

\* the provider or the probe of the clip fails
SynthesizeFails ==
    /\ tpc = "synth"
    /\ topt.tts_provider # "none"
    /\ StageRaises("Synthesizing", "RuntimeError")
    /\ UNCHANGED <<tinputs, tlocals, tmerged, toutput, notTier>>

\* provider "none", or a provider without its credentials or command: die
SynthesizeDies ==
    /\ tpc = "synth"
    /\ StageRaises("Synthesizing", "SystemExit")
    /\ UNCHANGED <<tinputs, tlocals, tmerged, toutput, notTier>>

\* the base media is probed and its audio extracted
Probe ==
    /\ tpc = "probe"
    /\ tpc' = "detect"
    /\ UNCHANGED <<tinputs, tstages, tlocals, tmerged, toutput, terr, notTier>>

ProbeFails ==
    /\ tpc = "probe"
    /\ tpc' = "failed"
    /\ terr' = "RuntimeError"
    /\ UNCHANGED <<tinputs, tstages, tlocals, tmerged, toutput, notTier>>

\* what the detection of each policy finds: <<seg, slot, markers, raises>>
Detected(opt, rep, base_duration, name_dur) ==
    LET policy == PolicyOf(opt)
        seg == detect_first_speech_segment(rep)
    IN  IF policy = "silver"
        THEN <<seg, SilverSlot(seg, base_duration, opt.silver_replace), <<>>, FALSE>>
        ELSE IF policy = "platinum"
        THEN LET target_count == Len(PlatinumPlaceholders(opt.platinum_placeholders))
                 marker_segments ==
                     MarkerSegments(detect_nonsilent_segments(rep, base_duration, MinSegmentMs),
                                    opt.platinum_max_placeholder)
             IN  IF PlatinumTooFew(marker_segments, target_count)
                 THEN <<None, None, <<>>, TRUE>>
                 ELSE <<None, None, FirstMarkers(marker_segments, target_count), FALSE>>
        ELSE IF policy = "diamond"
        THEN IF seg = None THEN <<seg, None, <<>>, TRUE>>
             ELSE <<seg, DiamondSlot(seg, base_duration), <<>>, FALSE>>
        ELSE IF policy = "gold"
        THEN IF seg = None THEN <<seg, None, <<>>, TRUE>>
             ELSE LET target_dur == GoldTarget(seg, opt.gold_max_name, opt.gold_end_guard)
                  IN  <<seg, <<seg[1], seg[1] + target_dur>>, <<>>, GoldTooShort(target_dur)>>
        ELSE <<None,
               <<0, KeepDuration(detect_speech_end(rep), base_duration, name_dur)>>,
               <<>>, FALSE>>

\* the detection of the policy runs and the slot or the markers are chosen
Detect ==
    /\ tpc = "detect"
    /\ LET d == Detected(topt, treport, tbase, tname)
       IN  /\ tseg' = d[1]
           /\ tslot' = d[2]
           /\ tmarkers' = d[3]
           /\ tstages' = Append(tstages, "Detecting")
           /\ tpc' = IF d[4] THEN "failed" ELSE "fit"
           /\ terr' = IF d[4] THEN "RuntimeError" ELSE terr
    /\ UNCHANGED <<tinputs, tmerged, toutput, notTier>>

\* the engine fails on the detection
DetectFails ==
    /\ tpc = "detect"
    /\ StageRaises("Detecting", "RuntimeError")
    /\ UNCHANGED <<tinputs, tlocals, tmerged, toutput, notTier>>

\* the name clip is converted, fitted to the slot (Gold) and matched in
\* loudness
Fit ==
    /\ tpc = "fit"
    /\ tstages' = Append(tstages, "Fitting")
    /\ tpc' = "assemble"
    /\ UNCHANGED <<tinputs, tlocals, tmerged, toutput, terr, notTier>>

FitFails ==
    /\ tpc = "fit"
    /\ StageRaises("Fitting", "RuntimeError")
    /\ UNCHANGED <<tinputs, tlocals, tmerged, toutput, notTier>>

\* the audio track each policy concatenates
Assembled(opt, seg, slot, markers, name_dur, base_duration) ==
    LET policy == PolicyOf(opt)
    IN  IF policy = "silver"
        THEN SilverAssemble(seg, slot, name_dur, opt.silver_gap, base_duration)
        ELSE IF policy = "platinum"
        THEN PlatinumAssemble(markers, name_dur, opt.diamond_gap, base_duration)
        ELSE IF policy = "diamond"
        THEN DiamondAssemble(slot, name_dur, opt.diamond_gap, base_duration)
        ELSE IF policy = "gold"
        THEN GoldAssemble(slot[1], slot[2] - slot[1], name_dur, base_duration)
        ELSE TrailingAssemble(slot[2], name_dur, base_duration)

Assemble ==
    /\ tpc = "assemble"
    /\ tmerged' = Assembled(topt, tseg, tslot, tmarkers, tname, tbase)
    /\ tstages' = Append(tstages, "Assembling")
    /\ tpc' = "mux"
    /\ UNCHANGED <<tinputs, tlocals, toutput, terr, notTier>>

AssembleFails ==
    /\ tpc = "assemble"
    /\ StageRaises("Assembling", "RuntimeError")
    /\ UNCHANGED <<tinputs, tlocals, tmerged, toutput, notTier>>

\* the "-t" limit of the mux: Gold and the trailing name keep base_duration
MuxLimit(opt, base_duration) ==
    IF PolicyOf(opt) \in {"gold", "trailing"} THEN <<base_duration>> ELSE None

\* the mux with the lip-sync pass after it for every policy
AfterMux_AlwaysLipSync(opt) == "lipsync"

\* after the mux Silver returns; the other policies call apply_lip_sync,
\* which returns at once for provider "none"
AfterMux(opt) ==
    IF PolicyOf(opt) = "silver" \/ opt.lip_sync_provider = "none" THEN "done" ELSE "lipsync"

\* the output file is written; Silver returns here, the other policies go
\* on to apply_lip_sync, which returns at once for provider "none"
Mux ==
    /\ tpc = "mux"
    /\ toutput' = <<OutputFile(OutputExt(topt.insert_mode), tmerged, MuxLimit(topt, tbase))>>
    /\ tstages' = Append(tstages, "Muxing")
    /\ tpc' = AfterMux(topt)
    /\ UNCHANGED <<tinputs, tlocals, tmerged, terr, notTier>>

MuxFails ==
    /\ tpc = "mux"
    /\ StageRaises("Muxing", "RuntimeError")
    /\ UNCHANGED <<tinputs, tlocals, tmerged, toutput, notTier>>

\* Wav2Lip runs and its result replaces the output file
LipSync ==
    /\ tpc = "lipsync"
    /\ topt.lip_sync_provider = "wav2lip"
    /\ toutput' = <<[toutput[1] EXCEPT !.synced = TRUE]>>
    /\ tstages' = Append(tstages, "LipSyncing")
    /\ tpc' = "done"
    /\ UNCHANGED <<tinputs, tlocals, tmerged, terr, notTier>>

\* provider "sync_api", a missing repository or checkpoint, or a failing run
LipSyncFails ==
    /\ tpc = "lipsync"
    /\ StageRaises("LipSyncing", "RuntimeError")
    /\ UNCHANGED <<tinputs, tlocals, tmerged, toutput, notTier>>

TierNext ==
    \/ BuildStart
    \/ Synthesize
    \/ SynthesizeFails
    \/ SynthesizeDies
    \/ Probe
    \/ ProbeFails
    \/ Detect
    \/ DetectFails
    \/ Fit
    \/ FitFails
    \/ Assemble
    \/ AssembleFails
    \/ Mux
    \/ MuxFails
    \/ LipSync
    \/ LipSyncFails

SpecTier == TierInit /\ [][TierNext]_vars

\* ------------------------------------------------------------------------
\* Specification of main's loop over the recipients, after the cache build
\* ------------------------------------------------------------------------
\* the name cells of the recipients file; "!" stands for any character
\* outside [A-Za-z0-9_-]
LoopNames == { <<"a">>, <<"a", "!">>, <<"b">>, <<" ">> }

LoopRowLists == UNION { [1..n -> LoopNames] : n \in 0..MaxRecipients }

LoopOptions ==
    [insert_mode : {"silver", "gold"}, dry_run : BOOLEAN, build_name_cache : BOOLEAN]

\* output = out_dir / f"{slug}.{output_ext}"
OutputPath(person_name, insert_mode) ==
    [slug |-> safe_slug(person_name), ext |-> OutputExt(insert_mode)]

\* main passes a clip of the cache when the cache was built
NameAudioGiven(opt) == opt.build_name_cache /\ ~opt.dry_run

\* the clause "except Exception" of the loop: SystemExit is not an Exception
LoopCatches(kind) == kind # "SystemExit"

LoopInit ==
    /\ lopt \in LoopOptions
    /\ lrows \in LoopRowLists
    /\ li = 1
    /\ attempted = <<>>
    /\ created = <<>>
    /\ outdir = <<>>
    /\ lpc = "loop"
    /\ lexit = None
    /\ FitIdle
    /\ TierIdle
    /\ DetectIdle
    /\ KeyIdle
    /\ MainIdle
    /\ BackendIdle

InLoop == lpc = "loop" /\ li <= Len(lrows)

notLoop == <<fvars, tvars, olds>>

\* a row whose name is blank is skipped
RecipientBlank ==
    /\ InLoop
    /\ Strip(lrows[li]) = <<>>
    /\ li' = li + 1
    /\ UNCHANGED <<lopt, lrows, attempted, created, outdir, lpc, lexit, notLoop>>

\* build_personalized_video returns: the output file is written (not in a
\* dry run) and "Created" is printed
RecipientCreated ==
    /\ InLoop
    /\ Strip(lrows[li]) # <<>>
    /\ LET name == Strip(lrows[li])
       IN  /\ attempted' = Append(attempted, name)
           /\ created' = Append(created, name)
           /\ outdir' = IF lopt.dry_run THEN outdir
                        ELSE Put(outdir, OutputPath(name, lopt.insert_mode), name)
    /\ li' = li + 1
    /\ UNCHANGED <<lopt, lrows, lpc, lexit, notLoop>>

\* a stage of build_personalized_video raises RuntimeError, before or after
\* the output file was written; the failure is caught and printed and the
\* loop goes on
RecipientFailed ==
    /\ InLoop
    /\ Strip(lrows[li]) # <<>>
    /\ ~lopt.dry_run
    /\ LoopCatches("RuntimeError")
    /\ attempted' = Append(attempted, Strip(lrows[li]))
    /\ \E wrote \in BOOLEAN :
          outdir' = IF wrote
                    THEN Put(outdir, OutputPath(Strip(lrows[li]), lopt.insert_mode), Strip(lrows[li]))
                    ELSE outdir
    /\ li' = li + 1
    /\ UNCHANGED <<lopt, lrows, created, lpc, lexit, notLoop>>

\* the synthesis of a build without a clip of the cache calls die: the
\* SystemExit is not caught, it leaves the loop and main with exit code 1
RecipientDies ==
    /\ InLoop
    /\ Strip(lrows[li]) # <<>>
    /\ ~lopt.dry_run
    /\ ~NameAudioGiven(lopt)
    /\ ~LoopCatches("SystemExit")
    /\ attempted' = Append(attempted, Strip(lrows[li]))
    /\ lpc' = "exited"
    /\ lexit' = <<1>>
    /\ UNCHANGED <<lopt, lrows, li, created, outdir, notLoop>>

\* after the last row main prints "Done." and returns 0
LoopDone ==
    /\ lpc = "loop"
    /\ li > Len(lrows)
    /\ lpc' = "done"
    /\ lexit' = <<0>>
    /\ UNCHANGED <<lopt, lrows, li, attempted, created, outdir, notLoop>>

LoopNext ==
    \/ RecipientBlank
    \/ RecipientCreated
    \/ RecipientFailed
    \/ RecipientDies
    \/ LoopDone

SpecLoop == LoopInit /\ [][LoopNext]_vars

\* ------------------------------------------------------------------------
\* Specification of one run of run_pipeline (backend/app.py) on a stored job
\* ------------------------------------------------------------------------
\* the tiers a job can ask for, and values of the form fields insert_mode
\* and name_position, which create_job stores as they come
RequestedModes == {"silver", "gold", "diamond", "platinum", "bronze"}
NamePositions == {"start", "end", "middle"}

JobOptions ==
    [insert_mode : RequestedModes, name_position : NamePositions,
     diamond_natural_name : BOOLEAN, lip_sync_provider : {"none", "wav2lip"}]

\* insert_mode = "gold" if requested_mode in ("diamond", "platinum")
InsertModeOf(requested_mode) ==
    IF requested_mode \in {"diamond", "platinum"} THEN "gold" ELSE requested_mode

\* the check that raises "insert_mode=... is not implemented yet."
Implemented(insert_mode) == insert_mode \in {"silver", "gold"}

\* the arguments run_pipeline passes to personalized_video.py, as the
\* arguments of build_personalized_video they become; the name cache is
\* always built, so every build gets a clip of the cache
CommandOptions(options) ==
    [DefaultOptions EXCEPT
        !.insert_mode = InsertModeOf(options.insert_mode),
        !.name_position = options.name_position,
        !.platinum_mode = (options.insert_mode = "platinum"),
        !.diamond_natural_name = options.diamond_natural_name,
        !.lip_sync_provider =
            IF options.insert_mode \in {"diamond", "platinum"}
            THEN options.lip_sync_provider ELSE "none",
        !.cached = TRUE]

\* the choices of --insert-mode and --name-position
ArgsAccepted(cmd) ==
    /\ cmd.insert_mode \in {"silver", "gold"}
    /\ cmd.name_position \in {"start", "end"}

\* JobStore.update_status: status, error and zip_path are all overwritten
update_status_KeepsNothing(status, error, zip_path) ==
    [status |-> status, error |-> None, zip_path |-> None]

update_status(status, error, zip_path) ==
    [status |-> status, error |-> error, zip_path |-> zip_path]

\* main's exit code when a failed recipient fails the run
MainExitCode_FailOnFailure(results) ==
    IF \E i \in Indices(results) : results[i] = "failed" THEN 1 ELSE 0

\* main's exit code after its loop over the recipients: "return 0"
MainExitCode(results) == 0

PipelineInit ==
    /\ joptions \in JobOptions
    /\ jrows \in 0..MaxJobRows
    /\ jstatus = "queued"
    /\ jerror = None
    /\ jzip = None
    /\ jpc = "queued"
    /\ jexc = None
    /\ jpolicy = None
    /\ jresults = <<>>
    /\ jreturncode = None
    /\ ServerIdle
    /\ ShareIdle
    /\ FitIdle
    /\ TierIdle
    /\ LoopIdle
    /\ DetectIdle
    /\ KeyIdle
    /\ MainIdle

notPipeline == <<fvars, tvars, lvars, svars, cvars, dvars, kvars, mvars>>

\* what the subprocess has done so far
jrun == <<jpolicy, jresults, jreturncode>>

\* update_status applied to the job's row
StatusUpdated(status, error, zip_path) ==
    LET row == update_status(status, error, zip_path)
    IN  /\ jstatus' = row.status
        /\ jerror' = row.error
        /\ jzip' = row.zip_path

\* the job is loaded and marked running
PipelineStart ==
    /\ jpc = "queued"
    /\ StatusUpdated("running", None, None)
    /\ jpc' = "mode"
    /\ UNCHANGED <<joptions, jrows, jexc, jrun, notPipeline>>

\* the requested mode maps to an implemented insert mode
ModeAccepted ==
    /\ jpc = "mode"
    /\ Implemented(InsertModeOf(joptions.insert_mode))
    /\ jpc' = "spawn"
    /\ UNCHANGED <<joptions, jrows, jstatus, jerror, jzip, jexc, jrun, notPipeline>>

ModeRejected ==
    /\ jpc = "mode"
    /\ ~Implemented(InsertModeOf(joptions.insert_mode))
    /\ jexc' = <<"not implemented">>
    /\ jpc' = "except"
    /\ UNCHANGED <<joptions, jrows, jstatus, jerror, jzip, jrun, notPipeline>>

\* the argument parser of personalized_video.py refuses a choice: exit code 2
ArgsRejected ==
    /\ jpc = "spawn"
    /\ ~ArgsAccepted(CommandOptions(joptions))
    /\ jreturncode' = <<2>>
    /\ jpc' = "returned"
    /\ UNCHANGED <<joptions, jrows, jstatus, jerror, jzip, jexc, jpolicy, jresults,
                   notPipeline>>

\* main starts; its arguments select the policy of every build of the run
MainStarts ==
    /\ jpc = "spawn"
    /\ ArgsAccepted(CommandOptions(joptions))
    /\ jpolicy' = <<PolicyOf(CommandOptions(joptions))>>
    /\ jpc' = "cache"
    /\ UNCHANGED <<joptions, jrows, jstatus, jerror, jzip, jexc, jresults, jreturncode,
                   notPipeline>>

\* the name cache is built
CacheBuilt ==
    /\ jpc = "cache"
    /\ jpc' = "loop"
    /\ UNCHANGED <<joptions, jrows, jstatus, jerror, jzip, jexc, jrun, notPipeline>>

\* die, or an exception outside the recipients loop: exit code 1
CacheAborts ==
    /\ jpc = "cache"
    /\ jreturncode' = <<1>>
    /\ jpc' = "returned"
    /\ UNCHANGED <<joptions, jrows, jstatus, jerror, jzip, jexc, jpolicy, jresults,
                   notPipeline>>

\* one recipient of the loop: its output is created
JobRecipientCreated ==
    /\ jpc = "loop"
    /\ Len(jresults) < jrows
    /\ jresults' = Append(jresults, "created")
    /\ UNCHANGED <<joptions, jrows, jstatus, jerror, jzip, jpc, jexc, jpolicy,
                   jreturncode, notPipeline>>

\* one recipient of the loop: its build raises, which the loop catches
JobRecipientFailed ==
    /\ jpc = "loop"
    /\ Len(jresults) < jrows
    /\ LoopCatches("RuntimeError")
    /\ jresults' = Append(jresults, "failed")
    /\ UNCHANGED <<joptions, jrows, jstatus, jerror, jzip, jpc, jexc, jpolicy,
                   jreturncode, notPipeline>>

\* after the last recipient main returns
MainReturns ==
    /\ jpc = "loop"
    /\ Len(jresults) = jrows
    /\ jreturncode' = <<MainExitCode(jresults)>>
    /\ jpc' = "returned"
    /\ UNCHANGED <<joptions, jrows, jstatus, jerror, jzip, jexc, jpolicy, jresults,
                   notPipeline>>

\* "if proc.returncode != 0: raise RuntimeError"
ReturnCodeChecked ==
    /\ jpc = "returned"
    /\ jexc' = IF jreturncode[1] # 0 THEN <<"personalized_video.py failed">> ELSE jexc
    /\ jpc' = IF jreturncode[1] # 0 THEN "except" ELSE "zip"
    /\ UNCHANGED <<joptions, jrows, jstatus, jerror, jzip, jrun, notPipeline>>

\* the outputs are archived and the job marked done
Archived ==
    /\ jpc = "zip"
    /\ StatusUpdated("done", None, <<"videos.zip">>)
    /\ jpc' = "end"
    /\ UNCHANGED <<joptions, jrows, jexc, jrun, notPipeline>>

\* the archive cannot be written
ArchiveFails ==
    /\ jpc = "zip"
    /\ jexc' = <<"archive failed">>
    /\ jpc' = "except"
    /\ UNCHANGED <<joptions, jrows, jstatus, jerror, jzip, jrun, notPipeline>>

\* "except Exception as exc": the job is marked failed with the message
PipelineExcept ==
    /\ jpc = "except"
    /\ StatusUpdated("failed", jexc, None)
    /\ jpc' = "end"
    /\ UNCHANGED <<joptions, jrows, jexc, jrun, notPipeline>>

PipelineNext ==
    \/ PipelineStart
    \/ ModeAccepted
    \/ ModeRejected
    \/ ArgsRejected
    \/ MainStarts
    \/ CacheBuilt
    \/ CacheAborts
    \/ JobRecipientCreated
    \/ JobRecipientFailed
    \/ MainReturns
    \/ ReturnCodeChecked
    \/ Archived
    \/ ArchiveFails
    \/ PipelineExcept

SpecPipeline == PipelineInit /\ [][PipelineNext]_vars

\* ------------------------------------------------------------------------
\* Specification of the server: create_job requests and their run_pipeline
\* background tasks, which run side by side
\* ------------------------------------------------------------------------
Requests == 1..MaxRequests

\* the content hashes of the uploaded voice samples
SampleHashes == {"h1", "h2"}

\* _new_job_id: the local time formatted down to the second
new_job_id_PerTick(now) == now

new_job_id(now) == now \div TicksPerSecond

\* JobStore.create: the row of a new job
NewRow == [status |-> "queued", error |-> None, zip_path |-> None]

\* a request not yet received
NoRequest == [pc |-> "idle", job_id |-> 0, sample |-> None, cache |-> <<>>, voice_id |-> None]

ServerInit ==
    /\ clock = 0
    /\ store = <<>>
    /\ dirs = <<>>
    /\ voice_cache = <<>>
    /\ clones = <<>>
    /\ req = [r \in Requests |-> NoRequest]
    /\ PipelineIdle
    /\ ShareIdle
    /\ FitIdle
    /\ TierIdle
    /\ LoopIdle
    /\ DetectIdle
    /\ KeyIdle
    /\ MainIdle

notServer == <<fvars, tvars, lvars, jvars, cvars, dvars, kvars, mvars>>

\* the clock advances
Tick ==
    /\ clock < MaxTicks
    /\ clock' = clock + 1
    /\ UNCHANGED <<store, dirs, voice_cache, clones, req, notServer>>

\* create_job: the job id is taken from the clock; the request comes with
\* a voice sample (ElevenLabs) or without one
NewJobId ==
    \E r \in Requests, s \in {None} \cup { <<h>> : h \in SampleHashes } :
        /\ req[r].pc = "idle"
        /\ req' = [req EXCEPT ![r] = [@ EXCEPT !.pc = "upload",
                                                 !.job_id = new_job_id(clock),
                                                 !.sample = s]]
        /\ UNCHANGED <<clock, store, dirs, voice_cache, clones, notServer>>

\* create_job: the job directories are made if missing and the uploads are
\* written into them, over whatever is there
SaveUploads ==
    \E r \in Requests :
        /\ req[r].pc = "upload"
        /\ dirs' = Put(dirs, req[r].job_id, r)
        /\ req' = [req EXCEPT ![r].pc = "insert"]
        /\ UNCHANGED <<clock, store, voice_cache, clones, notServer>>

\* create_job: the row is inserted and the background task added
StoreCreate ==
    \E r \in Requests :
        /\ req[r].pc = "insert"
        /\ req[r].job_id \notin DOMAIN store
        /\ store' = Put(store, req[r].job_id, NewRow)
        /\ req' = [req EXCEPT ![r].pc = "queued"]
        /\ UNCHANGED <<clock, dirs, voice_cache, clones, notServer>>

\* create_job: the id is taken, the INSERT violates the primary key and the
\* request ends with an error
StoreCreateFails ==
    \E r \in Requests :
        /\ req[r].pc = "insert"
        /\ req[r].job_id \in DOMAIN store
        /\ req' = [req EXCEPT ![r].pc = "rejected"]
        /\ UNCHANGED <<clock, store, dirs, voice_cache, clones, notServer>>

\* run_pipeline: the job is marked running
RunStart ==
    \E r \in Requests :
        /\ req[r].pc = "queued"
        /\ store' = [store EXCEPT ![req[r].job_id] = update_status("running", None, None)]
        /\ req' = [req EXCEPT ![r].pc = IF req[r].sample = None THEN "run" ELSE "load"]
        /\ UNCHANGED <<clock, dirs, voice_cache, clones, notServer>>

\* run_pipeline: the voice cache file is read
LoadVoiceCache ==
    \E r \in Requests :
        /\ req[r].pc = "load"
        /\ req' = [req EXCEPT ![r] = [@ EXCEPT !.pc = "lookup", !.cache = voice_cache]]
        /\ UNCHANGED <<clock, store, dirs, voice_cache, clones, notServer>>

\* run_pipeline: the sample's hash is in the cache that was read
VoiceCached ==
    \E r \in Requests :
        /\ req[r].pc = "lookup"
        /\ req[r].sample[1] \in DOMAIN req[r].cache
        /\ req' = [req EXCEPT ![r] = [@ EXCEPT !.pc = "run",
                                                 !.voice_id = <<req[r].cache[req[r].sample[1]]>>]]
        /\ UNCHANGED <<clock, store, dirs, voice_cache, clones, notServer>>

\* run_pipeline: the hash is not in the cache that was read; the voice is
\* cloned, which issues a new voice id, and entered in the cache read
CloneVoice ==
    \E r \in Requests :
        /\ req[r].pc = "lookup"
        /\ req[r].sample[1] \notin DOMAIN req[r].cache
        /\ clones' = CountWrite(clones, req[r].sample[1])
        /\ LET issued == <<req[r].sample[1], clones'[req[r].sample[1]]>>
           IN  req' = [req EXCEPT ![r] = [@ EXCEPT !.pc = "save",
                                                     !.voice_id = <<issued>>,
                                                     !.cache = Put(@, req[r].sample[1], issued)]]
        /\ UNCHANGED <<clock, store, dirs, voice_cache, notServer>>

\* run_pipeline: the cloning request fails
CloneFails ==
    \E r \in Requests :
        /\ req[r].pc = "lookup"
        /\ req[r].sample[1] \notin DOMAIN req[r].cache
        /\ req' = [req EXCEPT ![r].pc = "except"]
        /\ UNCHANGED <<clock, store, dirs, voice_cache, clones, notServer>>

\* run_pipeline: the cache read, with the new entry, replaces the file
SaveVoiceCache ==
    \E r \in Requests :
        /\ req[r].pc = "save"
        /\ voice_cache' = req[r].cache
        /\ req' = [req EXCEPT ![r].pc = "run"]
        /\ UNCHANGED <<clock, store, dirs, clones, notServer>>

\* run_pipeline: the subprocess exits with 0, the outputs are archived and
\* the job is marked done
RunDone ==
    \E r \in Requests :
        /\ req[r].pc = "run"
        /\ store' = [store EXCEPT ![req[r].job_id] = update_status("done", None, <<"videos.zip">>)]
        /\ req' = [req EXCEPT ![r].pc = "returned"]
        /\ UNCHANGED <<clock, dirs, voice_cache, clones, notServer>>

\* run_pipeline: the subprocess exits with another code, or the archive fails
RunRaises ==
    \E r \in Requests :
        /\ req[r].pc = "run"
        /\ req' = [req EXCEPT ![r].pc = "except"]
        /\ UNCHANGED <<clock, store, dirs, voice_cache, clones, notServer>>

\* run_pipeline: "except Exception as exc" marks the job failed
RunExcept ==
    \E r \in Requests :
        /\ req[r].pc = "except"
        /\ store' = [store EXCEPT ![req[r].job_id] = update_status("failed", <<"error">>, None)]
        /\ req' = [req EXCEPT ![r].pc = "returned"]
        /\ UNCHANGED <<clock, dirs, voice_cache, clones, notServer>>

ServerNext ==
    \/ Tick
    \/ NewJobId
    \/ SaveUploads
    \/ StoreCreate
    \/ StoreCreateFails
    \/ RunStart
    \/ LoadVoiceCache
    \/ VoiceCached
    \/ CloneVoice
    \/ CloneFails
    \/ SaveVoiceCache
    \/ RunDone
    \/ RunRaises
    \/ RunExcept

SpecServer == ServerInit /\ [][ServerNext]_vars

\* ------------------------------------------------------------------------
\* Specification of one file of the shared name-audio cache and the jobs
\* that want it at the same time
\* ------------------------------------------------------------------------
Sharers == 1..MaxSharers

\* how a job produces the clips it misses: ensure_name_clip_wav ("single")
\* or ensure_name_clips_batch_tts ("batch")
ShareModes == {"single", "batch"}

\* the clips a synthesis can give: the single-clip path the whole audio of
\* its own synthesis, the batch path a cut of the batch audio, which depends
\* on the other names of the batch
ClipsOf(mode) ==
    IF mode = "single" THEN {SingleClip}
    ELSE {Clip("batch", 0, 400), Clip("batch", 500, 400)}

\* a file of the cache directory: the clip written into it and whether the
\* writing has ended
CacheEntry(clip, complete) == [clip |-> clip, complete |-> complete]

ShareInit ==
    /\ cfile = None
    /\ wmode \in [Sharers -> ShareModes]
    /\ wtmp = [j \in Sharers |-> None]
    /\ wread = [j \in Sharers |-> None]
    /\ wpc = [j \in Sharers |-> "check"]
    /\ PipelineIdle
    /\ ServerIdle
    /\ FitIdle
    /\ TierIdle
    /\ LoopIdle
    /\ DetectIdle
    /\ KeyIdle
    /\ MainIdle

notShare == <<fvars, tvars, lvars, jvars, svars, dvars, kvars, mvars>>

\* "if out_wav.exists(): return out_wav"
FindsClip ==
    \E j \in Sharers :
        /\ wpc[j] = "check"
        /\ cfile # None
        /\ wpc' = [wpc EXCEPT ![j] = "use"]
        /\ UNCHANGED <<cfile, wmode, wtmp, wread, notShare>>

MissesClip ==
    \E j \in Sharers :
        /\ wpc[j] = "check"
        /\ cfile = None
        /\ wpc' = [wpc EXCEPT ![j] = "synth"]
        /\ UNCHANGED <<cfile, wmode, wtmp, wread, notShare>>

\* the text is synthesized into the job's temporary directory
SynthesizesClip ==
    \E j \in Sharers :
        /\ wpc[j] = "synth"
        /\ \E clip \in ClipsOf(wmode[j]) : wtmp' = [wtmp EXCEPT ![j] = <<clip>>]
        /\ wpc' = [wpc EXCEPT ![j] = "write"]
        /\ UNCHANGED <<cfile, wmode, wread, notShare>>

\* single-clip path: the finished temporary file is moved to the cache path
\* (a rename, the temporary directory being on the filesystem of the cache)
MovesClip ==
    \E j \in Sharers :
        /\ wpc[j] = "write"
        /\ wmode[j] = "single"
        /\ cfile' = <<CacheEntry(wtmp[j][1], TRUE)>>
        /\ wpc' = [wpc EXCEPT ![j] = "use"]
        /\ UNCHANGED <<wmode, wtmp, wread, notShare>>

\* batch path: ffmpeg -y opens the cache path itself and starts writing
BatchOpens ==
    \E j \in Sharers :
        /\ wpc[j] = "write"
        /\ wmode[j] = "batch"
        /\ cfile' = <<CacheEntry(wtmp[j][1], FALSE)>>
        /\ wpc' = [wpc EXCEPT ![j] = "writing"]
        /\ UNCHANGED <<wmode, wtmp, wread, notShare>>

\* batch path: ffmpeg ends; the file is whole unless another ffmpeg is still
\* writing it
BatchCloses ==
    \E j \in Sharers :
        /\ wpc[j] = "writing"
        /\ cfile' = <<CacheEntry(wtmp[j][1],
                                 \A k \in Sharers \ {j} : wpc[k] # "writing")>>
        /\ wpc' = [wpc EXCEPT ![j] = "use"]
        /\ UNCHANGED <<wmode, wtmp, wread, notShare>>

\* the build of a recipient reads the clip at the cache path
ReadsClip ==
    \E j \in Sharers :
        /\ wpc[j] = "use"
        /\ wread' = [wread EXCEPT ![j] = cfile]
        /\ wpc' = [wpc EXCEPT ![j] = "done"]
        /\ UNCHANGED <<cfile, wmode, wtmp, notShare>>

ShareNext ==
    \/ FindsClip
    \/ MissesClip
    \/ SynthesizesClip
    \/ MovesClip
    \/ BatchOpens
    \/ BatchCloses
    \/ ReadsClip

SpecShare == ShareInit /\ [][ShareNext]_vars

\* ------------------------------------------------------------------------
\* Properties of the interval detector
\* ------------------------------------------------------------------------
FirstSpeechDone == dpc = "first_speech"

\* the report begins with a silence that starts at about time 0
LeadingSilence(rep) == rep # <<>> /\ Abs(rep[1].ts) < LeadingSilenceMs

\* the silence starts of the report that lie more than the guard after t
StartsAfterGuard(rep, t) ==
    { i \in Indices(rep) : rep[i].typ = "silence_start" /\ rep[i].ts > t + SpeechEndGuardMs }

FirstIndex(I) == CHOOSE i \in I : \A j \in I : i <= j

\* C7 (as stated): whenever the report contains a silence interval that does
\* not touch time 0, the first speech segment is (0, s) with s the start of
\* the first silence interval (read either as the first interval of the
\* report or as the first one that does not touch time 0).
C7_AnyIntervalOffZero ==
    LET offZero == { i \in 1..(Len(report) - 1) :
                        report[i].typ = "silence_start" /\ report[i].ts >= LeadingSilenceMs }
    IN  (FirstSpeechDone /\ offZero # {})
            => \/ firstSpeech = <<0, report[1].ts>>
               \/ firstSpeech = <<0, report[FirstIndex(offZero)].ts>>

\* C7 (amended): when the first reported silence starts at s >= 0.05 s, i.e.
\* the report does not begin with a silence at about time 0, the first speech
\* segment is (0, s).
C7_NoLeadingSilence ==
    (FirstSpeechDone /\ report # <<>> /\ report[1].ts >= LeadingSilenceMs)
        => firstSpeech = <<0, report[1].ts>>

C7_Witness ==
    /\ FirstSpeechDone
    /\ Len(report) >= 4
    /\ report[1].ts >= LeadingSilenceMs
    /\ firstSpeech = <<0, report[1].ts>>

\* C8 (as stated): when the report begins with a silence interval at about
\* time 0 and another silence interval follows, the first speech segment is
\* (e, s) with
\* e the end of the leading interval and s the start of the next silence
\* interval after e.
C8_NextSilenceStart ==
    (FirstSpeechDone /\ LeadingSilence(report) /\ Len(report) >= 4)
        => firstSpeech = <<report[2].ts, report[3].ts>>

\* C8 (amended): when the report begins with a silence interval at about time
\* 0 that ends at e, the first speech segment is (e, s) with s the first
\* silence start that lies more than 0.02 s after e, and None when there is
\* no such silence start; events 0 / 1.2 / 3.0 give (1.2, 3.0).
C8_LeadingSilence ==
    (FirstSpeechDone /\ LeadingSilence(report) /\ Len(report) >= 2)
        => LET e == report[2].ts
               later == StartsAfterGuard(report, e)
           IN  /\ later = {} => firstSpeech = None
               /\ later # {} => firstSpeech = <<e, report[FirstIndex(later)].ts>>
               /\ report = ReportOf({0, 1200, 3000}) => firstSpeech = <<1200, 3000>>

C8_Witness ==
    /\ FirstSpeechDone
    /\ report = ReportOf({0, 1200, 3000})
    /\ firstSpeech = <<1200, 3000>>

\* the speech start the detector is specified to use: the end of a leading
\* silence interval, else 0
SpecifiedSpeechStart(rep) ==
    IF LeadingSilence(rep) /\ Len(rep) >= 2 THEN rep[2].ts ELSE 0

\* C9: the result is None when nothing is reported or when no silence start
\* lies after the speech start; a returned (start, end) has
\* end > start + 0.02 s, and start is 0 or the end of a reported silence.
C9_NoneOrProperSegment ==
    FirstSpeechDone =>
        /\ report = <<>> => firstSpeech = None
        /\ (\A i \in Indices(report) :
                ~(report[i].typ = "silence_start" /\ report[i].ts > SpecifiedSpeechStart(report)))
              => firstSpeech = None
        /\ firstSpeech # None =>
              /\ firstSpeech[2] > firstSpeech[1] + SpeechEndGuardMs
              /\ \/ firstSpeech[1] = 0
                 \/ \E iv \in ReportedSilences(report) : iv[2] = firstSpeech[1]

C9_Witness ==
    /\ FirstSpeechDone
    /\ firstSpeech # None
    /\ firstSpeech[1] > 0
    /\ \E i \in Indices(report) :
          /\ report[i].typ = "silence_start"
          /\ report[i].ts > firstSpeech[1]
          /\ report[i].ts < firstSpeech[2]

NonsilentDone == dpc = "nonsilent"

\* the silence intervals as the detector records them (clipped at 0)
ClippedSilences(rep) == { <<Max(0, iv[1]), Max(0, iv[2])>> : iv \in ReportedSilences(rep) }

\* (a, b) is a maximal silence-free piece of [0, tot)
IsComplementPiece(rep, tot, a, b) ==
    /\ 0 <= a /\ a < b /\ b <= tot
    /\ \A sil \in ClippedSilences(rep) : sil[2] <= a \/ sil[1] >= b
    /\ a = 0 \/ \E sil \in ClippedSilences(rep) : sil[2] = a
    /\ b = tot \/ \E sil \in ClippedSilences(rep) : sil[1] = b

ComplementPieces(rep, tot) ==
    LET lefts == {0} \cup { sil[2] : sil \in ClippedSilences(rep) }
        rights == {tot} \cup { sil[1] : sil \in ClippedSilences(rep) }
    IN  { p \in lefts \X rights : IsComplementPiece(rep, tot, p[1], p[2]) }

\* C10: the returned segments are exactly the pieces of the complement of the
\* reported silence intervals in [0, total) that are at least min_segment
\* long; they are ordered, pairwise disjoint, inside [0, total], and none
\* overlaps a reported silence interval.
C10_ComplementOfSilences ==
    NonsilentDone =>
        /\ { nonsilent[i] : i \in Indices(nonsilent) }
             = { p \in ComplementPieces(report, total) : p[2] - p[1] >= MinSegmentMs }
        /\ \A i \in Indices(nonsilent) :
              /\ nonsilent[i][2] - nonsilent[i][1] >= MinSegmentMs
              /\ 0 <= nonsilent[i][1] /\ nonsilent[i][2] <= total
              /\ \A sil \in ReportedSilences(report) :
                    sil[2] <= nonsilent[i][1] \/ sil[1] >= nonsilent[i][2]
        /\ \A i, j \in Indices(nonsilent) : i < j => nonsilent[i][2] <= nonsilent[j][1]

C10_Witness ==
    /\ NonsilentDone
    /\ Len(nonsilent) >= 2
    /\ Len(nonsilent) < Cardinality(ComplementPieces(report, total))

\* ------------------------------------------------------------------------
\* Properties of the cache key
\* ------------------------------------------------------------------------
KeysCompared == kpc = "compared"

\* the eight values the key is specified to depend on
KeyFields(cfg) ==
    << cfg.text_template, cfg.lang, cfg.tts_provider, cfg.tts_cmd,
       VoiceHashOf(cfg.voice_sample), cfg.elevenlabs_voice_id,
       cfg.elevenlabs_model_id, cfg.elevenlabs_speed >>

DifferingFields(a, b) == { i \in 1..8 : KeyFields(a)[i] # KeyFields(b)[i] }

\* a speed to three decimals (None stays None)
ToThreeDecimals(speed) == IF speed = None THEN None ELSE <<(speed[1] + 5) \div 10>>

\* C6 (as stated): identical field values give the same key, and changing
\* any one of the eight fields gives a different key.
C6_AnyFieldChangesKey ==
    KeysCompared =>
        /\ DifferingFields(cfgA, cfgB) = {} => keyA = keyB
        /\ Cardinality(DifferingFields(cfgA, cfgB)) = 1 => keyA # keyB

\* C6 (amended): identical field values give the same key; changing any one
\* of the seven fields other than the speed gives a different key; changing
\* only the speed gives a different key exactly when the two speeds differ
\* after rounding to three decimals (or exactly one of them is absent).
C6_KeyDeterminedByFields ==
    KeysCompared =>
        /\ DifferingFields(cfgA, cfgB) = {} => keyA = keyB
        /\ \A i \in 1..8 :
              DifferingFields(cfgA, cfgB) = {i} =>
                 IF i = 8
                 THEN (keyA # keyB) <=>
                         (ToThreeDecimals(cfgA.elevenlabs_speed) # ToThreeDecimals(cfgB.elevenlabs_speed))
                 ELSE keyA # keyB

C6_Witness ==
    /\ KeysCompared
    /\ cfgA.text_template = <<"{name}">>
    /\ cfgB.text_template = <<"{name}", "|">>
    /\ cfgA.tts_cmd = <<"|">>
    /\ keyA # keyB

\* ------------------------------------------------------------------------
\* Properties of the name-audio cache and of the cache-build phase
\* ------------------------------------------------------------------------
\* the names of the synthesis request issued by the step, if it issues one
RequestedNames(request) ==
    IF request = None THEN {} ELSE { request.text[i] : i \in Indices(request.text) }

\* C1: over any sequence of single-clip and batch calls with one synthesis
\* configuration, a cache file is written at most once: an existing file is
\* never modified and its name is never sent to the TTS provider again, and
\* every path a call returns is the path of an existing file.
C1_WrittenAtMostOnce ==
    /\ [](\A f \in DOMAIN writes : writes[f] <= 1)
    /\ [](\A n \in DOMAIN name_to_wav : name_to_wav[n] \in DOMAIN cache)
    /\ [][\A f \in DOMAIN cache :
             /\ f \in DOMAIN cache'
             /\ cache'[f] = cache[f]
             /\ writes'[f] = writes[f]]_vars
    /\ [][\A n \in RequestedNames(tts') : CacheFile(n) \notin DOMAIN cache]_vars

\* a second job finds a clip of the single-clip path and extracts the others
C1_Witness ==
    /\ pc = "batch_extract"
    /\ idx > 1
    /\ \E n \in DOMAIN found : cache[found[n]].src = "single"
    /\ \A f \in DOMAIN writes : writes[f] = 1

\* C2: after an accepted detection, name missing[i] is cached with the clip
\* of the i-th detected segment in time order, whatever the order of the
\* names, and no other name of the call gets a clip (segments beyond the
\* k-th are not used).
C2_SegmentIToNameI ==
    pc = "batch_extract" =>
        /\ Len(segments) >= Len(missing)
        /\ \A i, j \in Indices(segments) : i < j => segments[i][2] <= segments[j][1]
        /\ \A i \in 1..(idx - 1) :
              /\ found[missing[i]] = CacheFile(missing[i])
              /\ cache[CacheFile(missing[i])] =
                    Clip("batch", segments[i][1], segments[i][2] - segments[i][1])
        /\ \A i \in idx..Len(missing) : CacheFile(missing[i]) \notin DOMAIN cache
        /\ Cardinality({ n \in DOMAIN found : \E i \in Indices(missing) : missing[i] = n }) = idx - 1

C2_Witness ==
    /\ pc = "batch_extract"
    /\ missing = << <<"c">>, <<"a">>, <<"b">> >>
    /\ Len(segments) = 3
    /\ idx = 4
    /\ cache[CacheFile(<<"c">>)].start = 0
    /\ cache[CacheFile(<<"b">>)].start = 500

\* C3: when each of the three split attempts finds fewer segments than there
\* are missing names, the batch call raises an error and has created no
\* cache file for any missing name.
C3_NoPartialEntries ==
    (Len(trials) = NumTrials /\ \A i \in Indices(trials) : trials[i].n < Len(missing))
        => /\ pc = "batch_raised"
           /\ raised = "RuntimeError"
           /\ batchOutcome = "split_failed"
           /\ \A i \in Indices(missing) : CacheFile(missing[i]) \notin DOMAIN cache
           /\ \A n \in DOMAIN found : \A i \in Indices(missing) : n # missing[i]

C3_Witness ==
    /\ pc = "batch_raised"
    /\ batchOutcome = "split_failed"
    /\ Len(missing) = 2
    /\ trials[3].n = 1
    /\ found # <<>>

\* the trial log follows the ladder with the given three durations, the loop
\* runs at most three detections and none after a sufficient one
LadderFollowed(durs) ==
    /\ Len(trials) <= NumTrials
    /\ \A i \in Indices(trials) :
          /\ trials[i].db = split.db + 5 * (i - 1)
          /\ trials[i].dur = durs[i]
    /\ \A i \in 1..(Len(trials) - 1) : trials[i].n < Len(missing)
    /\ (trials # <<>> /\ trials[Len(trials)].n >= Len(missing)) => pc # "batch_detect"

\* C4 (as stated): the splitter runs at most three detections, with
\* (db, dur), (db+5, dur*0.66), (db+10, dur*0.5) in this order, and stops at
\* the first one that finds at least as many segments as missing names.
C4_LadderAsStated ==
    trials # <<>> =>
        LadderFollowed(<<split.dur, (split.dur * 66) \div 100, (split.dur * 50) \div 100>>)

\* C4 (amended): the same, with the second and third minimum silence
\* durations floored: (db, dur), (db+5, max(0.08, dur*0.66)),
\* (db+10, max(0.05, dur*0.5)).
C4_LadderWithFloors ==
    trials # <<>> =>
        LadderFollowed(<< split.dur,
                          Max(80, (split.dur * 66) \div 100),
                          Max(50, (split.dur * 50) \div 100) >>)

C4_Witness ==
    /\ pc = "batch_extract"
    /\ Len(trials) = 3
    /\ split.dur = 50
    /\ trials[2].dur = 80
    /\ trials[2].n < Len(missing)
    /\ trials[3].n >= Len(missing)

\* C5: at the end of the cache-build phase every unique name is mapped to an
\* existing cache file, whatever the batch step did, and a failed split never
\* ends the job.
C5_EveryNameCached ==
    /\ pc = "cache_built" =>
          \A i \in Indices(unique_names) :
             /\ unique_names[i] \in DOMAIN name_to_wav
             /\ name_to_wav[unique_names[i]] = CacheFile(unique_names[i])
             /\ CacheFile(unique_names[i]) \in DOMAIN cache
    /\ batchOutcome = "split_failed" => pc \notin {"aborted"} \/ abortedBy = "single"
    /\ (pc = "aborted" /\ abortedBy = "batch") => raised = "SystemExit"

C5_Witness ==
    /\ pc = "cache_built"
    /\ batchOutcome = "split_failed"
    /\ Len(unique_names) = 3
    /\ \A i \in Indices(unique_names) : cache[name_to_wav[unique_names[i]]].src = "single"

\* ------------------------------------------------------------------------
\* C16: match_audio_loudness
\* ------------------------------------------------------------------------
LoudnessMatched == fpc = "matched"

\* the mean volume of a volumedetect run, when it can be measured
Measurable(volume_run) == volume_run.rc = 0 /\ volume_run.line # None

\* clamp(x, lo, hi)
Clamp(x, lo, hi) == IF x < lo THEN lo ELSE IF x > hi THEN hi ELSE x

\* C16: match_audio_loudness writes an unmodified copy of the source when a
\* mean volume cannot be measured or when the gain clamp(reference mean -
\* source mean, -max_gain_db, +max_gain_db) is below 0.3 dB in absolute
\* value; otherwise it applies exactly that gain, which lies in
\* [-max_gain_db, +max_gain_db]; it always returns a file.
C16_ClampedGainOrCopy ==
    LoudnessMatched =>
        IF ~Measurable(lsrc) \/ ~Measurable(lref) THEN lout = CopyOfSource
        ELSE LET gain == Clamp(lref.line[1] - lsrc.line[1], 0 - lmax, lmax)
             IN  IF Abs(gain) < NegligibleGainMdb
                 THEN lout = CopyOfSource
                 ELSE /\ lout = WithGain(gain)
                      /\ 0 - lmax <= lout.gain[1]
                      /\ lout.gain[1] <= lmax

\* a gain was applied that the clamp had cut down to the maximum
C16_Witness ==
    /\ LoudnessMatched
    /\ Measurable(lsrc)
    /\ Measurable(lref)
    /\ lref.line[1] - lsrc.line[1] > lmax
    /\ lout = WithGain(lmax)

\* ------------------------------------------------------------------------
\* C17: build_atempo_filter
\* ------------------------------------------------------------------------
AtempoChained == fpc = "chained"

\* the product of a chain as the fraction <<num, den>> of millionths
RECURSIVE ChainProduct(_)
ChainProduct(chain) ==
    IF Len(chain) = 1 THEN <<chain[1], 1>>
    ELSE LET rest == ChainProduct(Tail(chain))
         IN  IF chain[1] = AtempoMax THEN <<2 * rest[1], rest[2]>>
             ELSE IF chain[1] = AtempoMin THEN <<rest[1], 2 * rest[2]>>
             ELSE <<chain[1] * rest[1], AtempoOne * rest[2]>>

RECURSIVE PowerOfTwo(_)
PowerOfTwo(k) == IF k = 0 THEN 1 ELSE 2 * PowerOfTwo(k - 1)

\* k stages within [0.5, 2.0] can have the product s
Reachable(s, k) == s <= AtempoOne * PowerOfTwo(k) /\ s * PowerOfTwo(k) >= AtempoOne

\* the least number of stages within [0.5, 2.0] whose product can be s
MinStages(s) == CHOOSE k \in 1..8 : Reachable(s, k) /\ \A j \in 1..(k - 1) : ~Reachable(s, j)

StagesInRange(chain) == \A i \in Indices(chain) : AtempoMin <= chain[i] /\ chain[i] <= AtempoMax

\* C17 as stated: for every positive speed the chain has every factor in
\* [0.5, 2.0], the minimum length, and a product equal to speed; for a
\* speed <= 0 it is the single stage 1.0.
C17_ProductEqualsSpeed ==
    AtempoChained =>
        IF aspeed <= 0 THEN achain = <<AtempoOne>>
        ELSE /\ StagesInRange(achain)
             /\ Len(achain) = MinStages(aspeed)
             /\ ChainProduct(achain)[1] = aspeed * ChainProduct(achain)[2]

\* C17: for every positive speed the chain has every factor in [0.5, 2.0]
\* and the minimum length, and its product equals speed up to the rounding
\* of the residual stage to six decimals: it differs from speed by at most
\* 0.0000005 times the product of the stages before the residual; for a
\* speed <= 0 the chain is the single stage 1.0.
C17_ProductWithinRounding ==
    AtempoChained =>
        IF aspeed <= 0 THEN achain = <<AtempoOne>>
        ELSE LET product == ChainProduct(achain)
                 before == ChainProduct(SubSeq(achain, 1, Len(achain) - 1) \o <<1>>)
             IN  /\ StagesInRange(achain)
                 /\ Len(achain) = MinStages(aspeed)
                 /\ 2 * Abs(product[1] - aspeed * product[2]) <= before[1]

\* a speed above 2.0 whose residual stage had to be rounded
C17_Witness ==
    /\ AtempoChained
    /\ aspeed > AtempoMax
    /\ Len(achain) >= 2
    /\ ChainProduct(achain)[1] # aspeed * ChainProduct(achain)[2]

\* ------------------------------------------------------------------------
\* C11: Platinum needs as many qualifying segments as placeholders
\* ------------------------------------------------------------------------
\* the build has got past the detection
Proceeded == tpc \in {"fit", "assemble", "mux", "lipsync", "done"}

\* the number of placeholder tokens that are not blank
TokenCount(tokens) ==
    Cardinality({ i \in Indices(tokens) : \E j \in Indices(tokens[i]) : tokens[i][j] # " " })

\* the detected non-silent segments of the base media no longer than the
\* maximum placeholder length, as a set
QualifyingSegments ==
    LET segs == detect_nonsilent_segments(treport, tbase, MinSegmentMs)
    IN  { segs[i] : i \in { j \in Indices(segs) :
                              segs[j][2] - segs[j][1] <= topt.platinum_max_placeholder } }

\* the markers are qualifying segments in ascending time order, the earliest
\* ones first
AscendingMarkers ==
    /\ \A i \in Indices(tmarkers) : tmarkers[i] \in QualifyingSegments
    /\ \A i \in 1..(Len(tmarkers) - 1) : tmarkers[i][2] <= tmarkers[i + 1][1]
    /\ \A q \in QualifyingSegments :
          (\A i \in Indices(tmarkers) : tmarkers[i] # q) =>
              \A i \in Indices(tmarkers) : tmarkers[i][2] <= q[1]

NameCount(pieces) == Cardinality({ i \in Indices(pieces) : pieces[i].kind = "name" })

\* C11: Platinum with N placeholder tokens proceeds only if at least N
\* detected non-silent segments are no longer than the maximum placeholder
\* length, and then uses exactly N insertion points in ascending time order;
\* with fewer qualifying segments it raises and writes no output.
C11_PlatinumNeedsAllMarkers ==
    (PolicyOf(topt) = "platinum" /\ TokenCount(topt.platinum_placeholders) >= 1) =>
        LET N == TokenCount(topt.platinum_placeholders)
        IN  /\ Proceeded =>
                /\ Cardinality(QualifyingSegments) >= N
                /\ Len(tmarkers) = N
                /\ AscendingMarkers
            /\ tpc \in {"mux", "lipsync", "done"} => NameCount(tmerged) = N
            /\ Cardinality(QualifyingSegments) < N =>
                /\ ~Proceeded
                /\ toutput = None

\* two placeholders and two qualifying segments: two insertion points, built
C11_Witness ==
    /\ PolicyOf(topt) = "platinum"
    /\ TokenCount(topt.platinum_placeholders) = 2
    /\ Cardinality(QualifyingSegments) = 2
    /\ tpc = "done"
    /\ Len(tmarkers) = 2
    /\ toutput # None

\* ------------------------------------------------------------------------
\* C14: the Silver slot
\* ------------------------------------------------------------------------
\* C14: in Silver the slot of base audio replaced by the name is at least
\* silver_replace_seconds long, unless it ends at the end of the base
\* audio, for every detected first-speech segment.
C14_SlotAtLeastReplace ==
    (PolicyOf(topt) = "silver" /\ Proceeded /\ tseg # None) =>
        \/ tslot[2] - tslot[1] >= topt.silver_replace
        \/ tslot[2] = tbase

\* ------------------------------------------------------------------------
\* C15: the Silver output
\* ------------------------------------------------------------------------
SilverBuilt == PolicyOf(topt) = "silver" /\ tpc = "done" /\ ~topt.dry_run /\ tseg # None

\* name at natural length, gap when positive, base audio from an instant on
NameGapBaseFrom(t) ==
    <<NamePiece(tname, <<>>)>>
        \o (IF topt.silver_gap > 0 THEN <<GapPiece(topt.silver_gap)>> ELSE <<>>)
        \o <<BasePiece(t, tbase)>>

\* C15 as stated: the Silver output is the name clip at its natural length,
\* the gap, then the base audio from the end of the detected first-speech
\* segment, so it lasts name + gap + (base duration - segment end).
C15_SuffixFromSegmentEnd ==
    SilverBuilt =>
        /\ toutput[1].audio = NameGapBaseFrom(tseg[2])
        /\ PiecesDuration(toutput[1].audio) = tname + topt.silver_gap + (tbase - tseg[2])

\* the end of the slot: the end of the detected segment, or for a segment
\* shorter than 0.12 s its start plus silver_replace_seconds, bounded by the
\* base duration
SlotEndOfSegment ==
    IF tseg[2] - tseg[1] >= ShortSegmentMs THEN tseg[2]
    ELSE IF tseg[1] + topt.silver_replace <= tbase THEN tseg[1] + topt.silver_replace
    ELSE tbase

\* C15: the Silver output is the name clip at its natural length, the gap,
\* then the base audio from the end of the slot, which is the end of the
\* detected segment when that segment is at least 0.12 s long and otherwise
\* min(base duration, segment start + silver_replace_seconds); it lasts
\* name + gap + (base duration - slot end).
C15_SuffixFromSlotEnd ==
    SilverBuilt =>
        /\ toutput[1].audio = NameGapBaseFrom(SlotEndOfSegment)
        /\ PiecesDuration(toutput[1].audio) = tname + topt.silver_gap + (tbase - SlotEndOfSegment)

\* a Silver build on a detected segment shorter than 0.12 s, with a gap
C15_Witness ==
    /\ SilverBuilt
    /\ tseg[2] - tseg[1] < ShortSegmentMs
    /\ topt.silver_gap > 0
    /\ tseg[2] < SlotEndOfSegment

\* ------------------------------------------------------------------------
\* C18: Gold and the degenerate slot
\* ------------------------------------------------------------------------
\* the length of the detected segment after the cap and the end guard
TrimmedDuration ==
    LET raw == tseg[2] - tseg[1]
        capped == IF raw > topt.gold_max_name THEN topt.gold_max_name ELSE raw
    IN  capped - topt.gold_end_guard

\* C18: Gold raises and writes no output whenever the duration of the slot
\* after the cap and the end-guard trimming is <= 0.05 s.
C18_DegenerateSlotRaises ==
    (PolicyOf(topt) = "gold" /\ tseg # None /\ TrimmedDuration <= GoldTooShortMs) =>
        /\ ~Proceeded
        /\ toutput = None

\* ------------------------------------------------------------------------
\* C19: the order of the stages of one build
\* ------------------------------------------------------------------------
IsPrefix(s, t) == Len(s) <= Len(t) /\ s = SubSeq(t, 1, Len(s))

SynthesizingIfNeeded == IF topt.cached THEN <<>> ELSE <<"Synthesizing">>

LipSyncingIfAsked ==
    IF PolicyOf(topt) # "silver" /\ topt.lip_sync_provider # "none"
    THEN <<"LipSyncing">> ELSE <<>>

\* the stages in the order section 4.4 gives them
StagesAsStated ==
    <<"Detecting">> \o SynthesizingIfNeeded
        \o <<"Fitting", "Assembling", "Muxing">> \o LipSyncingIfAsked

\* the stages with the synthesis before the detection
StagesSynthesisFirst ==
    SynthesizingIfNeeded \o <<"Detecting", "Fitting", "Assembling", "Muxing">>
        \o LipSyncingIfAsked

\* the build follows the order: what it ran is a beginning of the order, the
\* whole of it when the build is done, and a failed build runs nothing more
Follows(order) ==
    /\ IsPrefix(tstages, order)
    /\ tpc = "done" => tstages = order
    /\ tpc \in {"failed", "exited"} => ~ENABLED TierNext

\* C19 as stated: the stages of a build run in the order Detecting,
\* Synthesizing (without a pre-provisioned clip), Fitting, Assembling,
\* Muxing, the optional LipSyncing; none runs twice and a failure ends the
\* build.
C19_DetectingFirst == (tpc # "idle" /\ ~topt.dry_run) => Follows(StagesAsStated)

\* C19: the stages of a build run in the order Synthesizing (without a
\* pre-provisioned clip), Detecting, Fitting, Assembling, Muxing, the
\* optional LipSyncing, then Done; none runs twice and a failure in a stage
\* ends the build without the later stages.
C19_SynthesizingFirst == (tpc # "idle" /\ ~topt.dry_run) => Follows(StagesSynthesisFirst)

\* a build that synthesized its clip and ran every stage to the lip sync
C19_Witness ==
    /\ tpc = "done"
    /\ ~topt.cached
    /\ tstages = <<"Synthesizing", "Detecting", "Fitting", "Assembling", "Muxing", "LipSyncing">>

\* ------------------------------------------------------------------------
\* C20: the Platinum audio track
\* ------------------------------------------------------------------------
PlatinumAssembled ==
    PolicyOf(topt) = "platinum" /\ tpc \in {"mux", "lipsync", "done"}

\* the end of the marker before marker i, 0 before the first
PreviousEnd(i) == IF i = 1 THEN 0 ELSE tmarkers[i - 1][2]

\* the track of the markers from i on: base audio from the previous marker
\* to this one, at least min_piece long when there is any, the name, the
\* gap; after the last marker the rest of the base audio
RECURSIVE TrackFrom(_, _)
TrackFrom(i, min_piece) ==
    IF i > Len(tmarkers)
    THEN IF tbase > PreviousEnd(i) THEN <<BasePiece(PreviousEnd(i), tbase)>> ELSE <<>>
    ELSE (IF tmarkers[i][1] > PreviousEnd(i)
          THEN <<BasePiece(PreviousEnd(i),
                           Max(tmarkers[i][1], PreviousEnd(i) + min_piece))>>
          ELSE <<>>)
         \o <<NamePiece(tname, <<>>)>>
         \o (IF topt.diamond_gap > 0 THEN <<GapPiece(topt.diamond_gap)>> ELSE <<>>)
         \o TrackFrom(i + 1, min_piece)

\* C20 as stated: the Platinum track is, for each marker in time order, the
\* base audio from the end of the previous marker (or 0) to the marker's
\* start, the name clip, the gap, and at last the base audio after the last
\* marker: base audio outside the markers once and in order, no audio of a
\* marker, the name once per marker.
C20_ExactlyOutsideMarkers == PlatinumAssembled => tmerged = TrackFrom(1, 0)

\* C20: as stated, except that the piece of base audio cut before a marker
\* is never shorter than 0.01 s: when a marker starts less than 0.01 s after
\* the end of the previous marker (or after 0) the piece runs 0.01 s and so
\* includes the beginning of the marker.
C20_PiecesAtLeastTenMs ==
    PlatinumAssembled =>
        /\ tmerged = TrackFrom(1, PlatinumMinPieceMs)
        /\ NameCount(tmerged) = Len(tmarkers)

\* a marker that starts 5 ms into the base audio, a gap, and base audio left
\* after the marker
C20_Witness ==
    /\ PlatinumAssembled
    /\ tmarkers # <<>>
    /\ tmarkers[1][1] = 5
    /\ tmarkers[Len(tmarkers)][2] < tbase
    /\ topt.diamond_gap > 0
    /\ tpc = "done"

\* ------------------------------------------------------------------------
\* C12: a recipient's failure and the later recipients
\* ------------------------------------------------------------------------
\* the names of the rows that have one, stripped, in file order
RECURSIVE NamedRows(_)
NamedRows(rows) ==
    IF rows = <<>> THEN <<>>
    ELSE IF \A j \in Indices(Head(rows)) : Head(rows)[j] = " "
    THEN NamedRows(Tail(rows))
    ELSE <<Strip(Head(rows))>> \o NamedRows(Tail(rows))

LoopEnded == lpc \in {"done", "exited"}

\* C12: whatever the outcome of the earlier recipients, every row with a
\* name is attempted exactly once, in file order, and no failure of a
\* recipient aborts the job.
C12_EveryRecipientAttempted ==
    /\ IsPrefix(attempted, NamedRows(lrows))
    /\ LoopEnded => (attempted = NamedRows(lrows) /\ lpc = "done")

\* ------------------------------------------------------------------------
\* C13: the output paths of different names
\* ------------------------------------------------------------------------
\* C13: within one job two recipients with different names never get the
\* same output path, and the file created for a recipient is never
\* overwritten by the output of a recipient with another name.
C13_DistinctOutputPaths ==
    /\ \A i, j \in Indices(attempted) :
          attempted[i] # attempted[j] =>
              OutputPath(attempted[i], lopt.insert_mode) # OutputPath(attempted[j], lopt.insert_mode)
    /\ ~lopt.dry_run =>
          \A i \in Indices(created) : outdir[OutputPath(created[i], lopt.insert_mode)] = created[i]

\* ------------------------------------------------------------------------
\* C21: the Gold slot, the cap and the end guard
\* ------------------------------------------------------------------------
\* Gold has detected a segment and chosen its slot
GoldSlotChosen == PolicyOf(topt) = "gold" /\ tseg # None /\ tslot # None

\* C21: in Gold the replaced slot is never longer than gold_max_name_seconds
\* and ends at least gold_end_guard_seconds before the end of the detected
\* first-speech segment.
C21_SlotWithinCapAndGuard ==
    GoldSlotChosen =>
        /\ tslot[2] - tslot[1] <= topt.gold_max_name
        /\ tslot[2] + topt.gold_end_guard <= tseg[2]

\* ------------------------------------------------------------------------
\* C22: the duration of the muxed output
\* ------------------------------------------------------------------------
\* the muxed file of a policy, before any lip-sync pass replaces it
Muxed(policies) ==
    /\ PolicyOf(topt) \in policies
    /\ toutput # None
    /\ ~toutput[1].synced

RECURSIVE SegmentsLength(_)
SegmentsLength(segs) ==
    IF segs = <<>> THEN 0 ELSE (Head(segs)[2] - Head(segs)[1]) + SegmentsLength(Tail(segs))

\* C22 as stated: for Gold, Diamond natural and Platinum the output file
\* lasts as long as the base video, for every name-clip length and gap.
C22_KeepsBaseDuration ==
    Muxed({"gold", "diamond", "platinum"}) => OutputDuration(toutput[1], tbase) = tbase

\* C22: the Gold output lasts as long as the base video; the Diamond natural
\* and Platinum outputs last at least as long, and longer whenever the
\* inserted names and gaps are longer than the base audio they replace: for
\* Diamond natural the output lasts base + max(0, name + gap - slot).
C22_GoldKeepsOthersGrow ==
    /\ Muxed({"gold"}) => OutputDuration(toutput[1], tbase) = tbase
    /\ Muxed({"diamond"}) =>
           OutputDuration(toutput[1], tbase)
               = tbase + Max(0, tname + topt.diamond_gap - (tslot[2] - tslot[1]))
    /\ Muxed({"platinum"}) =>
           /\ OutputDuration(toutput[1], tbase) >= tbase
           /\ Len(tmarkers) * (tname + topt.diamond_gap) > SegmentsLength(tmarkers)
                  => OutputDuration(toutput[1], tbase) > tbase

\* a Diamond natural output longer than the base video
C22_Witness ==
    /\ Muxed({"diamond"})
    /\ tpc = "done"
    /\ OutputDuration(toutput[1], tbase) > tbase

\* ------------------------------------------------------------------------
\* C23: the Diamond natural track
\* ------------------------------------------------------------------------
DiamondAssembled == PolicyOf(topt) = "diamond" /\ tpc \in {"mux", "lipsync", "done"}

\* Diamond natural has run its detection on a base without a first segment
DiamondUndetected ==
    /\ PolicyOf(topt) = "diamond"
    /\ "Detecting" \in { tstages[i] : i \in Indices(tstages) }
    /\ detect_first_speech_segment(treport) = None

\* prefix up to the start of the detected segment, the name clip unstretched,
\* the gap when positive, the base audio from an instant on
PrefixNameGapBaseFrom(t) ==
    <<BasePiece(0, tseg[1]), NamePiece(tname, <<>>)>>
        \o (IF topt.diamond_gap > 0 THEN <<GapPiece(topt.diamond_gap)>> ELSE <<>>)
        \o <<BasePiece(t, tbase)>>

\* C23 as stated: without a detected first speech segment Diamond natural
\* raises and writes nothing; otherwise the track is base[0, speech_start),
\* the name at natural length, the gap, base[speech_end, end) for the
\* detected segment (speech_start, speech_end).
C23_AroundDetectedSegment ==
    /\ DiamondUndetected => (tpc = "failed" /\ toutput = None)
    /\ DiamondAssembled => tmerged = PrefixNameGapBaseFrom(tseg[2])

\* the end of the Diamond slot: the end of the detected segment, or for a
\* segment shorter than 0.12 s its start plus 0.35 s, bounded by the base
\* duration
DiamondSlotEnd ==
    IF tseg[2] - tseg[1] >= ShortSegmentMs THEN tseg[2]
    ELSE IF tseg[1] + DiamondReplaceMs <= tbase THEN tseg[1] + DiamondReplaceMs
    ELSE tbase

\* C23: as stated, except that for a detected segment shorter than 0.12 s
\* the suffix starts at min(base duration, speech_start + 0.35 s).
C23_AroundSlot ==
    /\ DiamondUndetected => (tpc = "failed" /\ toutput = None)
    /\ DiamondAssembled => tmerged = PrefixNameGapBaseFrom(DiamondSlotEnd)

\* a Diamond natural build on a segment shorter than 0.12 s, with a gap
C23_Witness ==
    /\ DiamondAssembled
    /\ tpc = "done"
    /\ tseg[2] - tseg[1] < ShortSegmentMs
    /\ topt.diamond_gap > 0
    /\ tseg[2] < DiamondSlotEnd

JobTiers == {"silver", "gold", "diamond", "platinum"}

\* a request without an implemented policy: an unknown tier, or a tier other
\* than Silver with the name anywhere but at the start
NoPolicyFor(options) ==
    \/ options.insert_mode \notin JobTiers
    \/ options.insert_mode # "silver" /\ options.name_position # "start"

\* C25: the policy applied to a job is the policy of its requested tier
\* (silver, gold, diamond, platinum), and a requested tier or a tier and
\* name-position combination without an implemented policy makes the job
\* fail instead of running under another tier's policy.
C25_PolicyFollowsRequestedTier ==
    /\ jpolicy # None => jpolicy[1] = joptions.insert_mode
    /\ (jpc = "end" /\ NoPolicyFor(joptions)) => jstatus = "failed"

\* ------------------------------------------------------------------------
\* C30: the final status of a job and the failures of its recipients
\* ------------------------------------------------------------------------
AllFailed(results) == \A i \in Indices(results) : results[i] = "failed"

\* C30: a finished job is failed if and only if an exception was raised in
\* run_pipeline, which a non-zero exit code of the subprocess always does;
\* once main has processed recipients its exit code is 0 whatever happened
\* to them, so a job whose recipients all failed ends done with a zip path
\* unless run_pipeline itself raises.
C30_FailedIffRaised ==
    /\ jpc = "end" => (jstatus = "failed" <=> jexc # None)
    /\ (jpc = "end" /\ jreturncode # None /\ jreturncode[1] # 0) => jstatus = "failed"
    /\ (jresults # <<>> /\ jreturncode # None) => jreturncode[1] = 0
    /\ (jpc = "end" /\ jexc = None) => (jstatus = "done" /\ jzip # None)

\* a job of two recipients that both failed, done with its zip path
C30_Witness ==
    /\ jpc = "end"
    /\ Len(jresults) >= 2
    /\ AllFailed(jresults)
    /\ jstatus = "done"
    /\ jzip # None

\* ------------------------------------------------------------------------
\* C26: the status of a job
\* ------------------------------------------------------------------------
\* the steps a status may take
StatusStep(from, to) ==
    \/ to = from
    \/ from = "queued" /\ to = "running"
    \/ from = "running" /\ to \in {"done", "failed"}

\* rows are never removed, start queued and change status by these steps
StoreStep ==
    \A id \in DOMAIN store' :
        IF id \in DOMAIN store THEN StatusStep(store[id].status, store'[id].status)
        ELSE store'[id].status = "queued"

\* a job whose run_pipeline has returned is done or failed; a failed job has
\* its error message and a done job its zip path
StoreSettled ==
    /\ DOMAIN store \subseteq DOMAIN store'
    /\ \A r \in Requests :
           req'[r].pc = "returned" => store'[req'[r].job_id].status \in {"done", "failed"}
    /\ \A id \in DOMAIN store' :
           /\ store'[id].status = "failed" => store'[id].error # None
           /\ store'[id].status = "done" => store'[id].zip_path # None

\* C26: every job's status goes queued, running, then done or failed and
\* stays there; run_pipeline never returns leaving its job running; a failed
\* job records its error message and a done job its zip path.
C26_StatusLifecycle == [][StoreStep /\ StoreSettled]_vars

\* one job done with its zip path and another failed with its message, both
\* run_pipeline calls having returned
C26_Witness ==
    \E r1, r2 \in Requests :
        /\ req[r1].pc = "returned"
        /\ req[r2].pc = "returned"
        /\ store[req[r1].job_id].status = "done"
        /\ store[req[r1].job_id].zip_path # None
        /\ store[req[r2].job_id].status = "failed"
        /\ store[req[r2].job_id].error # None

\* ------------------------------------------------------------------------
\* C27: write-then-present in the shared name-audio cache
\* ------------------------------------------------------------------------
\* C27: a clip is at its cache path only when its content is complete, so a
\* job that finds the file existing never reads a partly written clip, and
\* the jobs that write the same path write the same content.
C27_WriteThenPresent ==
    /\ cfile # None => cfile[1].complete
    /\ \A j \in Sharers : wread[j] # None => wread[j][1].complete
    /\ \A j, k \in Sharers : (wtmp[j] # None /\ wtmp[k] # None) => wtmp[j] = wtmp[k]

\* ------------------------------------------------------------------------
\* C28: the voice-identity cache across jobs
\* ------------------------------------------------------------------------
\* the jobs that have entered their sample in the cache file
Saved(r) == req[r].sample # None /\ req[r].pc \in {"run", "except", "returned"}
               /\ req[r].voice_id # None

\* C28: voice cloning is invoked at most once per distinct sample hash, and
\* the entry of a sample whose job has got its voice id stays in the cache
\* file whatever the other jobs write.
C28_CloneOncePerSample ==
    /\ \A h \in DOMAIN clones : clones[h] <= 1
    /\ \A r \in Requests : Saved(r) => req[r].sample[1] \in DOMAIN voice_cache

\* ------------------------------------------------------------------------
\* C29: the ids of the jobs
\* ------------------------------------------------------------------------
Received(r) == req[r].pc # "idle"
Uploaded(r) == req[r].pc \notin {"idle", "upload"}

\* C29: two create_job requests never get the same job id, so the uploads of
\* a request stay in its job directory, and no request fails on the primary
\* key of the job store.
C29_DistinctJobIds ==
    /\ \A r1, r2 \in Requests :
           (r1 # r2 /\ Received(r1) /\ Received(r2)) => req[r1].job_id # req[r2].job_id
    /\ \A r \in Requests : Uploaded(r) => dirs[req[r].job_id] = r
    /\ \A r \in Requests : req[r].pc # "rejected"

====
